---- MODULE Spec2Model ----
(***************************************************************************)
(* The job-scheduling engine of simulator/strategy.py: one run of one of   *)
(* fcfs_scheduling, sjf_scheduling, srtf_scheduling, hrrn_scheduling on a  *)
(* pair of lists (arrival_times, burst_times).                             *)
(*                                                                         *)
(* A Python list of length k is a function with domain 0 .. k-1, so job    *)
(* indices are the source's 0-based indices.  `order` is a sequence of job *)
(* indices.  Every loop iteration of the source is one action; `pc` is the *)
(* position of the run.  A mean (sum / n, a float in the source) is kept   *)
(* as the exact fraction [num, den].                                       *)
(***************************************************************************)
EXTENDS Integers, Sequences, FiniteSets, TLC

\* Bounds of the checked inputs.
MaxJobs == 3
MaxArrival == 2
MaxBurst == 3
\* No run on a valid input of these bounds needs a clock beyond this value;
\* it only cuts the SRTF idle loop that never ends (no job can become ready).
MaxTime == MaxArrival + (MaxJobs + 1) * (MaxBurst + 1)

VARIABLES
    policy,             \* which of the four functions is called
    arrival_times,      \* the caller's list
    burst_times,        \* the caller's list
    pc,                 \* "start", "sjf_loop", "metrics_loop", "srtf_loop",
                        \* "hrrn_loop", "done" (returned), "error" (raised)
    err,                \* the exception raised, "none" otherwise
    n,                  \* local n = len(burst_times)
    time,               \* local clock of the loop being run
    completed,          \* local counter (SRTF, HRRN)
    order,              \* list of job indices in execution order
    pos,                \* position of `for idx in order` (1-based)
    remaining,          \* SJF: set of unscheduled job indices
    remaining_times,    \* SRTF: private copy of burst_times
    done,               \* HRRN: list of booleans
    start_times,
    completion_times,
    waiting_times,
    turnaround_times,
    response_times,
    avg_waiting,
    avg_turnaround,
    avg_response,
    build,              \* the call of a build strategy: arguments and result
    lb,                 \* the call of a load balancer: arguments, loop, result
    ga,                 \* the call of genetic_algorithm_load
    log_file,           \* logs/results.csv: whether it exists, and its rows
    phase               \* the phase main() is running: its inputs and position

inputs == <<policy, arrival_times, burst_times>>
locals == <<n, time, completed, order, pos, remaining, remaining_times, done>>
results == <<start_times, completion_times, waiting_times, turnaround_times,
             response_times>>
avgs == <<avg_waiting, avg_turnaround, avg_response>>
\* The state of a scheduling run, and the state of the calls that are not one.
sched == <<inputs, pc, err, locals, results, avgs>>
log == <<log_file, phase>>
elsewhere == <<build, lb, ga, log>>
vars == <<sched, elsewhere>>

Policies == {"FCFS", "SJF", "SRTF", "HRRN"}

(***************************************************************************)
(* Python lists                                                            *)
(***************************************************************************)
Range(k) == 0 .. (k - 1)
PyLen(l) == Cardinality(DOMAIN l)
EmptyList == [i \in {} |-> 0]
\* [v] * k
Filled(k, v) == [i \in Range(k) |-> v]

RECURSIVE SumOver(_, _)
SumOver(l, S) ==
    IF S = {} THEN 0
    ELSE LET i == CHOOSE x \in S : TRUE IN l[i] + SumOver(l, S \ {i})
\* sum(l)
PySum(l) == SumOver(l, DOMAIN l)

\* The literal 0 returned as a mean.
Zero == [num |-> 0, den |-> 1]
\* sum(l) / k if k > 0 else 0
MeanUnguarded(l, k) == [num |-> PySum(l), den |-> k]
Mean(l, k) == IF k > 0 THEN [num |-> PySum(l), den |-> k] ELSE Zero

\* The input contract of section 6/7 of the specification.
ValidInput ==
    /\ PyLen(arrival_times) = PyLen(burst_times)
    /\ \A i \in DOMAIN arrival_times : arrival_times[i] >= 0
    /\ \A i \in DOMAIN burst_times : burst_times[i] > 0

(***************************************************************************)
(* compute_detailed_metrics                                                *)
(***************************************************************************)
\* Each operator below is one expression of the source.  An operator defined
\* just before it under a name saying what is wrong (NoWait, Late, Any, ...)
\* is that expression with a plausible slip; no action uses those.
\* if time < arrival_times[idx]: time = arrival_times[idx]; start = time
MetricsStartOnArrival(t, arr) == arr
MetricsStartNoWait(t, arr) == t
MetricsStart(t, arr) == IF t < arr THEN arr ELSE t
\* completion_times[idx] = time + burst_times[idx]
CompletionLate(start, burst) == start + burst + 1
Completion(start, burst) == start + burst
\* turnaround_times[idx] = completion_times[idx] - arrival_times[idx]
TurnaroundNoArrival(ct, arr) == ct
Turnaround(ct, arr) == ct - arr
\* waiting_times[idx] = turnaround_times[idx] - burst_times[idx]
Waiting(tat, burst) == tat - burst
\* response_times[idx] = start_times[idx] - arrival_times[idx]
Response(st, arr) == st - arr

\* The entry of compute_detailed_metrics(arrival_times, burst_times, order'):
\* the empty result when n == 0, the zeroed lists and clock 0 otherwise.
MetricsEnter ==
    /\ n' = PyLen(burst_times)
    /\ IF n' = 0
       THEN /\ pc' = "done"
            /\ start_times' = EmptyList
            /\ completion_times' = EmptyList
            /\ waiting_times' = EmptyList
            /\ turnaround_times' = EmptyList
            /\ response_times' = EmptyList
            /\ avg_waiting' = Zero
            /\ avg_turnaround' = Zero
            /\ avg_response' = Zero
            /\ UNCHANGED <<time, pos>>
       ELSE /\ pc' = "metrics_loop"
            /\ completion_times' = Filled(n', 0)
            /\ turnaround_times' = Filled(n', 0)
            /\ waiting_times' = Filled(n', 0)
            /\ response_times' = Filled(n', 0)
            /\ start_times' = Filled(n', 0)
            /\ time' = 0
            /\ pos' = 1
            /\ UNCHANGED avgs
    /\ UNCHANGED <<elsewhere, inputs, err, completed, remaining, remaining_times, done>>

\* One iteration of `for idx in order`.
MetricsStep ==
    /\ pc = "metrics_loop"
    /\ pos <= Len(order)
    /\ LET idx == order[pos] IN
       IF idx \notin DOMAIN arrival_times \/ idx \notin DOMAIN burst_times
       THEN /\ pc' = "error"
            /\ err' = "IndexError"
            /\ UNCHANGED <<elsewhere, inputs, locals, results, avgs>>
       ELSE LET st == MetricsStart(time, arrival_times[idx])
                ct == Completion(st, burst_times[idx])
                tat == Turnaround(ct, arrival_times[idx])
            IN  /\ start_times' = [start_times EXCEPT ![idx] = st]
                /\ completion_times' = [completion_times EXCEPT ![idx] = ct]
                /\ turnaround_times' = [turnaround_times EXCEPT ![idx] = tat]
                /\ waiting_times' =
                       [waiting_times EXCEPT ![idx] = Waiting(tat, burst_times[idx])]
                /\ response_times' =
                       [response_times EXCEPT ![idx] = Response(st, arrival_times[idx])]
                /\ time' = ct
                /\ pos' = pos + 1
                /\ UNCHANGED <<elsewhere, inputs, pc, err, n, completed, order, remaining,
                               remaining_times, done, avgs>>

\* The return statement after the loop.
MetricsReturn ==
    /\ pc = "metrics_loop"
    /\ pos > Len(order)
    /\ avg_waiting' = Mean(waiting_times, n)
    /\ avg_turnaround' = Mean(turnaround_times, n)
    /\ avg_response' = Mean(response_times, n)
    /\ pc' = "done"
    /\ UNCHANGED <<elsewhere, inputs, err, locals, results>>

(***************************************************************************)
(* Selection primitives.  A selection is the set of values the builtin can *)
(* return; the actions draw from it.  Every list scanned below is built by *)
(* a comprehension over range(n) or over a set of small ints, both of      *)
(* which iterate in ascending index order, so "first occurrence" is        *)
(* "lowest index".                                                         *)
(***************************************************************************)
\* min(S, key=lambda i: key[i]): the first element holding the least key.
MinAny(S, key) == {i \in S : \A j \in S : key[i] <= key[j]}
MaxFirst(S, key) ==
    {i \in S : \A j \in S : key[i] > key[j] \/ (key[i] = key[j] /\ i <= j)}
MinFirst(S, key) ==
    {i \in S : \A j \in S : key[i] < key[j] \/ (key[i] = key[j] /\ i <= j)}

\* The bijections 1..|S| -> S: the orders in which S can be listed.
Perms(S) ==
    {f \in [1 .. Cardinality(S) -> S] :
        \A p, q \in 1 .. Cardinality(S) : p # q => f[p] # f[q]}

(***************************************************************************)
(* fcfs_scheduling                                                         *)
(***************************************************************************)
\* sorted(range(len(arrival_times)), key=lambda i: arrival_times[i]):
\* ascending key, equal keys in their original (index) order.
FcfsOrdersUnstable(at) ==
    {o \in Perms(DOMAIN at) :
        \A p, q \in DOMAIN o : p < q => at[o[p]] <= at[o[q]]}
FcfsOrders(at) ==
    {o \in Perms(DOMAIN at) :
        \A p, q \in DOMAIN o :
            p < q => \/ at[o[p]] < at[o[q]]
                     \/ (at[o[p]] = at[o[q]] /\ o[p] < o[q])}

FcfsCall ==
    /\ pc = "start"
    /\ policy = "FCFS"
    /\ \E o \in FcfsOrders(arrival_times) : order' = o
    /\ MetricsEnter

(***************************************************************************)
(* sjf_scheduling                                                          *)
(***************************************************************************)
\* [i for i in remaining if arrival_times[i] <= time]
SjfAvailable(rem, t) == {i \in rem : arrival_times[i] <= t}
\* min(arrival_times[i] for i in remaining)
SjfNextArrivalLatest(rem) ==
    CHOOSE a \in {arrival_times[i] : i \in rem} :
        \A i \in rem : a >= arrival_times[i]
SjfNextArrival(rem) ==
    CHOOSE a \in {arrival_times[i] : i \in rem} :
        \A i \in rem : a <= arrival_times[i]
\* if not available: time = min(...); available = [...]
\* The clock at which the selection is made, and the list it is made from.
SjfNow(rem, t) == IF SjfAvailable(rem, t) = {} THEN SjfNextArrival(rem) ELSE t
SjfReady(rem, t) == SjfAvailable(rem, SjfNow(rem, t))
\* min(available, key=lambda i: burst_times[i]).  `remaining` is a set of
\* small ints, each hashing to itself, which CPython iterates in ascending
\* order, removals included; `available` keeps that order.
SjfLongest(available) == MaxFirst(available, burst_times)
SjfShortestAny(available) == MinAny(available, burst_times)
SjfShortest(available) == MinFirst(available, burst_times)

SjfCall ==
    /\ pc = "start"
    /\ policy = "SJF"
    /\ n' = PyLen(burst_times)
    /\ order' = <<>>
    /\ time' = 0
    /\ remaining' = Range(n')
    /\ pc' = "sjf_loop"
    /\ UNCHANGED <<elsewhere, inputs, err, completed, pos, remaining_times, done, results, avgs>>

\* One iteration of `while remaining`.
SjfSelect ==
    /\ pc = "sjf_loop"
    /\ remaining # {}
    /\ IF ~(remaining \subseteq DOMAIN arrival_times)
       THEN /\ pc' = "error"
            /\ err' = "IndexError"
            /\ UNCHANGED <<elsewhere, inputs, locals, results, avgs>>
       ELSE LET now == SjfNow(remaining, time)
                available == SjfReady(remaining, time)
            IN  \E shortest \in SjfShortest(available) :
                    /\ order' = Append(order, shortest)
                    /\ time' = now + burst_times[shortest]
                    /\ remaining' = remaining \ {shortest}
                    /\ UNCHANGED <<elsewhere, inputs, pc, err, n, completed, pos,
                                   remaining_times, done, results, avgs>>

\* The loop ends and compute_detailed_metrics is called on the order built.
SjfExit ==
    /\ pc = "sjf_loop"
    /\ remaining = {}
    /\ order' = order
    /\ MetricsEnter

(***************************************************************************)
(* srtf_scheduling                                                         *)
(***************************************************************************)
\* [i for i in range(n) if arrival_times[i] <= time and remaining_times[i] > 0]
SrtfAvailableStrict(t) ==
    {i \in Range(n) : arrival_times[i] < t /\ remaining_times[i] > 0}
SrtfAvailable(t) ==
    {i \in Range(n) : arrival_times[i] <= t /\ remaining_times[i] > 0}
\* min(available, key=lambda i: remaining_times[i])
SrtfLongest(available) == MaxFirst(available, remaining_times)
SrtfShortestAny(available) == MinAny(available, remaining_times)
SrtfShortest(available) == MinFirst(available, remaining_times)
\* remaining_times = burst_times[:] is a copy, so the caller's burst_times
\* after remaining_times[shortest] -= 1 is what it was; were it the same
\* list object, the caller's list would be the decremented one.
SrtfCallersBurstsAliased(bt, rem) == rem
SrtfCallersBursts(bt, rem) == bt
\* if start_times[shortest] == -1
SrtfUnstartedAlways(st) == TRUE
SrtfUnstarted(st) == st = -1
\* if remaining_times[shortest] == 0
SrtfNeverFinished(rem) == rem < 0
SrtfFinished(rem) == rem = 0
\* completion_times[shortest] = time   (after time += 1)
SrtfCompletionEarly(t) == t - 1
SrtfCompletion(t) == t

SrtfCall ==
    /\ pc = "start"
    /\ policy = "SRTF"
    /\ n' = PyLen(burst_times)
    /\ remaining_times' = burst_times
    /\ completion_times' = Filled(n', 0)
    /\ start_times' = Filled(n', -1)
    /\ response_times' = Filled(n', 0)
    /\ time' = 0
    /\ completed' = 0
    /\ order' = <<>>
    /\ pc' = "srtf_loop"
    /\ UNCHANGED <<elsewhere, inputs, err, pos, remaining, done, waiting_times,
                   turnaround_times, avgs>>

\* One iteration of `while completed < n`: an idle tick or one unit of work.
SrtfTick ==
    /\ pc = "srtf_loop"
    /\ completed < n
    /\ IF ~(Range(n) \subseteq DOMAIN arrival_times)
       THEN /\ pc' = "error"
            /\ err' = "IndexError"
            /\ UNCHANGED <<elsewhere, inputs, locals, results, avgs>>
       ELSE LET available == SrtfAvailable(time) IN
            IF available = {}
            THEN /\ time < MaxTime
                 /\ time' = time + 1
                 /\ UNCHANGED <<elsewhere, inputs, pc, err, n, completed, order, pos, remaining,
                                remaining_times, done, results, avgs>>
            ELSE \E shortest \in SrtfShortest(available) :
                 LET fresh == SrtfUnstarted(start_times[shortest])
                     rem == remaining_times[shortest] - 1
                 IN  /\ start_times' =
                            IF fresh THEN [start_times EXCEPT ![shortest] = time]
                            ELSE start_times
                     /\ response_times' =
                            IF fresh
                            THEN [response_times EXCEPT
                                    ![shortest] = Response(time, arrival_times[shortest])]
                            ELSE response_times
                     /\ order' = Append(order, shortest)
                     /\ remaining_times' = [remaining_times EXCEPT ![shortest] = rem]
                     /\ time' = time + 1
                     /\ IF SrtfFinished(rem)
                        THEN /\ completion_times' =
                                    [completion_times EXCEPT
                                        ![shortest] = SrtfCompletion(time + 1)]
                             /\ completed' = completed + 1
                        ELSE UNCHANGED <<completion_times, completed>>
                     /\ burst_times' = SrtfCallersBursts(burst_times, remaining_times')
                     /\ UNCHANGED <<elsewhere, policy, arrival_times, pc, err, n, pos,
                                    remaining, done, waiting_times, turnaround_times,
                                    avgs>>

\* The code after the loop: the derived lists and the means.
SrtfReturn ==
    /\ pc = "srtf_loop"
    /\ completed >= n
    /\ turnaround_times' =
           [i \in Range(n) |-> Turnaround(completion_times[i], arrival_times[i])]
    /\ waiting_times' =
           [i \in Range(n) |-> Waiting(turnaround_times'[i], burst_times[i])]
    /\ avg_waiting' = Mean(waiting_times', n)
    /\ avg_turnaround' = Mean(turnaround_times', n)
    /\ avg_response' = Mean(response_times, n)
    /\ pc' = "done"
    /\ UNCHANGED <<elsewhere, inputs, err, locals, start_times, completion_times, response_times>>

(***************************************************************************)
(* hrrn_scheduling                                                         *)
(***************************************************************************)
\* [i for i in range(n) if not done[i] and arrival_times[i] <= time]
HrrnAvailableArrived(t) == {i \in Range(n) : arrival_times[i] <= t}
HrrnAvailable(t) == {i \in Range(n) : ~done[i] /\ arrival_times[i] <= t}
\* (time - arrival_times[i] + burst_times[i]) / burst_times[i], as the exact
\* fraction num/den.  The source divides in floating point; the quotient of
\* two ints is correctly rounded, and two different fractions of ints this
\* small never round to the same double, so floats compare as fractions do.
RatioNum(i, t) == t - arrival_times[i] + burst_times[i]
RatioDen(i) == burst_times[i]
\* a/b < c/d and a/b = c/d for b, d # 0 (both sides scaled by b*b*d*d > 0).
FracLess(a, b, c, d) == a * b * d * d < c * d * b * b
FracEq(a, b, c, d) == a * d = c * b
\* max(ratios, key=ratios.get): the first key holding the greatest ratio;
\* the dict is filled in the order of `available`.
HrrnChosenLowestRatio(available, t) ==
    {i \in available : \A j \in available :
        \/ FracLess(RatioNum(i, t), RatioDen(i), RatioNum(j, t), RatioDen(j))
        \/ /\ FracEq(RatioNum(i, t), RatioDen(i), RatioNum(j, t), RatioDen(j))
           /\ i <= j}
HrrnChosen(available, t) ==
    {i \in available : \A j \in available :
        \/ FracLess(RatioNum(j, t), RatioDen(j), RatioNum(i, t), RatioDen(i))
        \/ /\ FracEq(RatioNum(j, t), RatioDen(j), RatioNum(i, t), RatioDen(i))
           /\ i <= j}
\* time += burst_times[chosen]
HrrnAdvanceTick(t, burst) == t + 1
HrrnAdvance(t, burst) == t + burst

HrrnCall ==
    /\ pc = "start"
    /\ policy = "HRRN"
    /\ n' = PyLen(burst_times)
    /\ time' = 0
    /\ completed' = 0
    /\ order' = <<>>
    /\ completion_times' = Filled(n', 0)
    /\ waiting_times' = Filled(n', 0)
    /\ turnaround_times' = Filled(n', 0)
    /\ response_times' = Filled(n', 0)
    /\ start_times' = Filled(n', -1)
    /\ done' = Filled(n', FALSE)
    /\ pc' = "hrrn_loop"
    /\ UNCHANGED <<elsewhere, inputs, err, pos, remaining, remaining_times, avgs>>

\* One iteration of `while completed < n`: an idle tick or one whole job.
HrrnStep ==
    /\ pc = "hrrn_loop"
    /\ completed < n
    /\ IF \E i \in Range(n) : ~done[i] /\ i \notin DOMAIN arrival_times
       THEN /\ pc' = "error"
            /\ err' = "IndexError"
            /\ UNCHANGED <<elsewhere, inputs, locals, results, avgs>>
       ELSE LET available == HrrnAvailable(time) IN
            IF available = {}
            THEN /\ time' = time + 1
                 /\ UNCHANGED <<elsewhere, inputs, pc, err, n, completed, order, pos, remaining,
                                remaining_times, done, results, avgs>>
            ELSE IF \E i \in available : burst_times[i] = 0
            THEN /\ pc' = "error"
                 /\ err' = "ZeroDivisionError"
                 /\ UNCHANGED <<elsewhere, inputs, locals, results, avgs>>
            ELSE \E chosen \in HrrnChosen(available, time) :
                 LET fresh == start_times[chosen] = -1
                     ct == HrrnAdvance(time, burst_times[chosen])
                     tat == Turnaround(ct, arrival_times[chosen])
                 IN  /\ start_times' =
                            IF fresh THEN [start_times EXCEPT ![chosen] = time]
                            ELSE start_times
                     /\ response_times' =
                            IF fresh
                            THEN [response_times EXCEPT
                                    ![chosen] = Response(time, arrival_times[chosen])]
                            ELSE response_times
                     /\ order' = Append(order, chosen)
                     /\ time' = ct
                     /\ completion_times' = [completion_times EXCEPT ![chosen] = ct]
                     /\ turnaround_times' = [turnaround_times EXCEPT ![chosen] = tat]
                     /\ waiting_times' =
                            [waiting_times EXCEPT
                                ![chosen] = Waiting(tat, burst_times[chosen])]
                     /\ done' = [done EXCEPT ![chosen] = TRUE]
                     /\ completed' = completed + 1
                     /\ UNCHANGED <<elsewhere, inputs, pc, err, n, pos, remaining,
                                    remaining_times, avgs>>

\* The return statement after the loop.
HrrnReturn ==
    /\ pc = "hrrn_loop"
    /\ completed >= n
    /\ avg_waiting' = Mean(waiting_times, n)
    /\ avg_turnaround' = Mean(turnaround_times, n)
    /\ avg_response' = Mean(response_times, n)
    /\ pc' = "done"
    /\ UNCHANGED <<elsewhere, inputs, err, locals, results>>

(***************************************************************************)
(* Specifications                                                          *)
(***************************************************************************)
\* The state before the call: nothing of the run exists yet.
Fresh ==
    /\ policy \in Policies
    /\ pc = "start"
    /\ err = "none"
    /\ n = 0
    /\ time = 0
    /\ completed = 0
    /\ order = <<>>
    /\ pos = 1
    /\ remaining = {}
    /\ remaining_times = EmptyList
    /\ done = EmptyList
    /\ start_times = EmptyList
    /\ completion_times = EmptyList
    /\ waiting_times = EmptyList
    /\ turnaround_times = EmptyList
    /\ response_times = EmptyList
    /\ avg_waiting = Zero
    /\ avg_turnaround = Zero
    /\ avg_response = Zero

\* No call other than the scheduling run is in progress.
Off == [pc |-> "off"]
\* The log file does not exist.
NoFile == [exists |-> FALSE, rows |-> <<>>]
\* No phase is running and nothing has been logged.
LogOff == log_file = NoFile /\ phase = Off
ElsewhereOff == build = Off /\ lb = Off /\ ga = Off /\ LogOff

\* The list [s[1], ..., s[Len(s)]].
PyList(s) == [i \in 0 .. Len(s) - 1 |-> s[i + 1]]
\* The job sets of the tests (and of the scenarios of the specification).
ScenarioA == [at |-> PyList(<<0, 1, 2>>), bt |-> PyList(<<5, 3, 8>>)]
ScenarioC == [at |-> PyList(<<0, 1, 2>>), bt |-> PyList(<<5, 3, 1>>)]
Scenarios == {ScenarioA, ScenarioC}

\* Every valid job set within the bounds, the empty one included, and the
\* job sets of the scenarios.
Init ==
    /\ \/ \E k \in 0 .. MaxJobs :
            /\ arrival_times \in [Range(k) -> 0 .. MaxArrival]
            /\ burst_times \in [Range(k) -> 1 .. MaxBurst]
       \/ \E sc \in Scenarios :
            /\ arrival_times = sc.at
            /\ burst_times = sc.bt
    /\ Fresh
    /\ ElsewhereOff

\* Any two lists of ints within the bounds: lengths that differ, a negative
\* arrival time, a service time of 0 or less.
InitAny ==
    /\ \E ka \in 0 .. MaxJobs, kb \in 0 .. MaxJobs :
        /\ arrival_times \in [Range(ka) -> -1 .. MaxArrival]
        /\ burst_times \in [Range(kb) -> -1 .. MaxBurst]
    /\ Fresh
    /\ ElsewhereOff

Next ==
    \/ FcfsCall
    \/ SjfCall
    \/ SjfSelect
    \/ SjfExit
    \/ MetricsStep
    \/ MetricsReturn
    \/ SrtfCall
    \/ SrtfTick
    \/ SrtfReturn
    \/ HrrnCall
    \/ HrrnStep
    \/ HrrnReturn

Spec == Init /\ [][Next]_vars
SpecAny == InitAny /\ [][Next]_vars
\* A call runs to its return on one thread with nothing to wait for: every
\* enabled step is taken.
FairSpec == Init /\ [][Next]_vars /\ WF_vars(Next)

(***************************************************************************)
(* The build strategies: sequential_build and cached_build.  `build` holds *)
(* the arguments of the call and, once it has returned, total_time and the *)
(* speedup before round(speedup, 2), as the exact fraction.                *)
(***************************************************************************)
\* Bounds of the checked build arguments.
MaxBuildServices == 4
MaxAvgTime == 6

\* No scheduling run is in progress.
SchedOff ==
    /\ policy = "none"
    /\ arrival_times = EmptyList
    /\ burst_times = EmptyList
    /\ pc = "off"
    /\ err = "none"
    /\ n = 0
    /\ time = 0
    /\ completed = 0
    /\ order = <<>>
    /\ pos = 1
    /\ remaining = {}
    /\ remaining_times = EmptyList
    /\ done = EmptyList
    /\ start_times = EmptyList
    /\ completion_times = EmptyList
    /\ waiting_times = EmptyList
    /\ turnaround_times = EmptyList
    /\ response_times = EmptyList
    /\ avg_waiting = Zero
    /\ avg_turnaround = Zero
    /\ avg_response = Zero

\* total_time = num_services * avg_time
SequentialTotal(num_services, avg_time) == num_services * avg_time
\* cached_time = (num_services - changed_services) * (avg_time // 2)
CachedTimeHalfOfProduct(num_services, avg_time, changed_services) ==
    ((num_services - changed_services) * avg_time) \div 2
CachedTime(num_services, avg_time, changed_services) ==
    (num_services - changed_services) * (avg_time \div 2)
\* total_time = changed_services * avg_time + cached_time
CachedTotal(num_services, avg_time, changed_services) ==
    changed_services * avg_time + CachedTime(num_services, avg_time, changed_services)

\* The call as it is made by build_phase.
BuildCall(strategy, num_services, avg_time, changed_services) ==
    [pc |-> "start", strategy |-> strategy, num_services |-> num_services,
     avg_time |-> avg_time, changed_services |-> changed_services,
     total_time |-> 0, speedup |-> Zero, err |-> "none"]

SequentialBuild ==
    /\ build.pc = "start"
    /\ build.strategy = "sequential"
    /\ build' = [build EXCEPT
                    !.pc = "done",
                    !.total_time = SequentialTotal(build.num_services, build.avg_time),
                    !.speedup = [num |-> 1, den |-> 1]]
    /\ UNCHANGED <<sched, lb, ga, log>>

\* speedup = seq_time / total_time raises when total_time is 0.
CachedBuild ==
    /\ build.pc = "start"
    /\ build.strategy = "cached"
    /\ LET seq_time == build.num_services * build.avg_time
           total == CachedTotal(build.num_services, build.avg_time,
                                build.changed_services)
       IN  build' = IF total = 0
                    THEN [build EXCEPT !.pc = "error", !.err = "ZeroDivisionError"]
                    ELSE [build EXCEPT
                            !.pc = "done",
                            !.total_time = total,
                            !.speedup = [num |-> seq_time, den |-> total]]
    /\ UNCHANGED <<sched, lb, ga, log>>

\* Every call with 0 <= changed_services <= num_services within the bounds.
InitBuild ==
    /\ \E num \in 0 .. MaxBuildServices, avg \in 0 .. MaxAvgTime :
        \/ build = BuildCall("sequential", num, avg, 0)
        \/ \E changed \in 0 .. num : build = BuildCall("cached", num, avg, changed)
    /\ lb = Off
    /\ ga = Off
    /\ SchedOff
    /\ LogOff

NextBuild ==
    \/ SequentialBuild
    \/ CachedBuild

SpecBuild == InitBuild /\ [][NextBuild]_vars

(***************************************************************************)
(* The basic load balancers: round_robin_load, least_connections_load and  *)
(* random_load.  `lb` holds the arguments of the call, the list being      *)
(* filled (distribution, called loads in least_connections_load), the loop *)
(* counter i and, once the call has returned, the metrics.                 *)
(***************************************************************************)
\* Bounds of the checked load-balancing calls.
MaxServices == 3
MaxRequests == 4
MaxInitialLoad == 2

One == [num |-> 1, den |-> 1]
SumSq(l) == PySum([i \in DOMAIN l |-> l[i] * l[i]])
\* max(distribution), min(distribution)
PyMax(l) == CHOOSE v \in {l[i] : i \in DOMAIN l} : \A i \in DOMAIN l : l[i] <= v
PyMin(l) == CHOOSE v \in {l[i] : i \in DOMAIN l} : \A i \in DOMAIN l : v <= l[i]
\* statistics.pvariance(l), exactly: sum((x - mean)^2) / n
PVariance(l) ==
    LET k == PyLen(l)
    IN  [num |-> k * SumSq(l) - PySum(l) * PySum(l), den |-> k * k]

\* compute_load_metrics; the float results are kept as exact fractions.
compute_load_metrics(distribution) ==
    LET k == PyLen(distribution)
        total == PySum(distribution)
        sum_sq == SumSq(distribution)
    IN  IF k = 0
        THEN [distribution |-> distribution, average_load |-> Zero,
              max_load |-> 0, min_load |-> 0, variance |-> Zero,
              fairness_index |-> One, load_imbalance |-> 0]
        ELSE [distribution |-> distribution,
              average_load |-> [num |-> total, den |-> k],
              max_load |-> PyMax(distribution),
              min_load |-> PyMin(distribution),
              variance |-> PVariance(distribution),
              fairness_index |-> IF total > 0 /\ sum_sq > 0
                                 THEN [num |-> total * total, den |-> k * sum_sq]
                                 ELSE One,
              load_imbalance |-> PyMax(distribution) - PyMin(distribution)]

\* l[idx] += 1
BumpOverwrite(l, idx) == [l EXCEPT ![idx] = 1]
Bump(l, idx) == [l EXCEPT ![idx] = @ + 1]
\* loads.index(min(loads)): the first position holding the least load
MostLoaded(loads) == MaxFirst(DOMAIN loads, loads)
LeastLoaded(loads) == MinFirst(DOMAIN loads, loads)
\* random.randint(0, num_services - 1)
RandomIndex(num_services) == 0 .. num_services - 1

NoMetrics == compute_load_metrics(EmptyList)
\* The call as it is made by load_balancing_phase.
LoadCall(algorithm, requests, num_services, service_loads) ==
    [pc |-> "start", algorithm |-> algorithm, requests |-> requests,
     num_services |-> num_services, service_loads |-> service_loads,
     distribution |-> EmptyList, i |-> 0, metrics |-> NoMetrics, err |-> "none"]

\* distribution = [0] * num_services
RoundRobinCall ==
    /\ lb.pc = "start"
    /\ lb.algorithm = "Round Robin"
    /\ lb' = [lb EXCEPT !.pc = "loop",
                        !.distribution = Filled(lb.num_services, 0)]
    /\ UNCHANGED <<sched, build, ga, log>>

\* One iteration of `for i in range(requests)`; i % 0 raises.
RoundRobinStep ==
    /\ lb.pc = "loop"
    /\ lb.algorithm = "Round Robin"
    /\ lb.i < lb.requests
    /\ lb' = IF lb.num_services = 0
             THEN [lb EXCEPT !.pc = "error", !.err = "ZeroDivisionError"]
             ELSE [lb EXCEPT
                     !.distribution = Bump(lb.distribution, lb.i % lb.num_services),
                     !.i = lb.i + 1]
    /\ UNCHANGED <<sched, build, ga, log>>

\* loads = service_loads[:]
LeastConnectionsCall ==
    /\ lb.pc = "start"
    /\ lb.algorithm = "Least Connections"
    /\ lb' = [lb EXCEPT !.pc = "loop", !.distribution = lb.service_loads]
    /\ UNCHANGED <<sched, build, ga, log>>

\* One iteration of `for _ in range(requests)`; min([]) raises.
LeastConnectionsStep ==
    /\ lb.pc = "loop"
    /\ lb.algorithm = "Least Connections"
    /\ lb.i < lb.requests
    /\ IF PyLen(lb.distribution) = 0
       THEN lb' = [lb EXCEPT !.pc = "error", !.err = "ValueError"]
       ELSE \E idx \in LeastLoaded(lb.distribution) :
                lb' = [lb EXCEPT !.distribution = Bump(lb.distribution, idx),
                                 !.i = lb.i + 1]
    /\ UNCHANGED <<sched, build, ga, log>>

\* distribution = [0] * num_services
RandomCall ==
    /\ lb.pc = "start"
    /\ lb.algorithm = "Random"
    /\ lb' = [lb EXCEPT !.pc = "loop",
                        !.distribution = Filled(lb.num_services, 0)]
    /\ UNCHANGED <<sched, build, ga, log>>

\* One iteration of `for _ in range(requests)`; randint(0, -1) raises.
RandomStep ==
    /\ lb.pc = "loop"
    /\ lb.algorithm = "Random"
    /\ lb.i < lb.requests
    /\ IF RandomIndex(lb.num_services) = {}
       THEN lb' = [lb EXCEPT !.pc = "error", !.err = "ValueError"]
       ELSE \E idx \in RandomIndex(lb.num_services) :
                lb' = [lb EXCEPT !.distribution = Bump(lb.distribution, idx),
                                 !.i = lb.i + 1]
    /\ UNCHANGED <<sched, build, ga, log>>

\* metrics = compute_load_metrics(distribution); return metrics
LoadReturn ==
    /\ lb.pc = "loop"
    /\ lb.algorithm \in {"Round Robin", "Least Connections", "Random"}
    /\ lb.i = lb.requests
    /\ lb' = [lb EXCEPT !.pc = "done",
                        !.metrics = compute_load_metrics(lb.distribution)]
    /\ UNCHANGED <<sched, build, ga, log>>

\* Every call within the bounds; least_connections_load is given one
\* initial load per service instance.
InitLB ==
    /\ \E requests \in 0 .. MaxRequests, num \in 0 .. MaxServices :
        \/ lb = LoadCall("Round Robin", requests, num, EmptyList)
        \/ lb = LoadCall("Random", requests, num, EmptyList)
        \/ \E initial \in [Range(num) -> 0 .. MaxInitialLoad] :
                lb = LoadCall("Least Connections", requests, num, initial)
    /\ build = Off
    /\ ga = Off
    /\ SchedOff
    /\ LogOff

NextLB ==
    \/ RoundRobinCall
    \/ RoundRobinStep
    \/ LeastConnectionsCall
    \/ LeastConnectionsStep
    \/ RandomCall
    \/ RandomStep
    \/ LoadReturn

SpecLB == InitLB /\ [][NextLB]_vars

(***************************************************************************)
(* irb_load.  `lb` holds the arguments of the call (requests and the list  *)
(* service_caps of dicts), the normalised list caps, the lists used_cpu,   *)
(* used_mem and distribution, the loop counter i and, once the call has    *)
(* returned, the metrics and the capacities summary.  Capacities and costs *)
(* are whole numbers of units, which the floats of the source hold         *)
(* exactly.                                                                *)
(***************************************************************************)
\* Bounds of the checked calls of irb_load.
MaxIrbServices == 2
MaxIrbRequests == 3
MaxCapacity == 2
MaxCpuCost == 2

\* s.get(key, default)
DictGet(s, key, default) == IF key \in DOMAIN s THEN s[key] ELSE default
\* The dict appended to caps for the dict s of service_caps.
IrbNormalized(s) ==
    [cpu_capacity |-> DictGet(s, "cpu_capacity", 1),
     mem_capacity |-> DictGet(s, "mem_capacity", 1),
     cpu_cost |-> DictGet(s, "cpu_cost", 1),
     mem_cost |-> DictGet(s, "mem_cost", 1)]
\* max(0.0, x)
Max0(x) == IF x > 0 THEN x ELSE 0
\* avail_score of service i: cpu_avail + mem_avail
IrbAvailUnclamped(caps, used_cpu, used_mem) ==
    [i \in DOMAIN caps |-> (caps[i].cpu_capacity - used_cpu[i])
                            + (caps[i].mem_capacity - used_mem[i])]
IrbAvail(caps, used_cpu, used_mem) ==
    [i \in DOMAIN caps |-> Max0(caps[i].cpu_capacity - used_cpu[i])
                            + Max0(caps[i].mem_capacity - used_mem[i])]
\* max(range(num_services), key=lambda i: (avail[i], -i))
IrbChosen(avail) ==
    {i \in DOMAIN avail : \A j \in DOMAIN avail :
        avail[i] > avail[j] \/ (avail[i] = avail[j] /\ i <= j)}
\* used[idx] += cost
Charge(used, idx, cost) == [used EXCEPT ![idx] = @ + cost]

\* The call as it is made by load_balancing_phase.
IrbLoadCall(requests, service_caps) ==
    [pc |-> "start", algorithm |-> "IRB LB", requests |-> requests,
     service_caps |-> service_caps, num_services |-> 0, caps |-> EmptyList,
     used_cpu |-> EmptyList, used_mem |-> EmptyList,
     distribution |-> EmptyList, i |-> 0, metrics |-> NoMetrics,
     summary |-> EmptyList, err |-> "none"]

\* The code before the loop; with no service it returns the empty metrics.
IrbCall ==
    /\ lb.pc = "start"
    /\ lb.algorithm = "IRB LB"
    /\ LET num == PyLen(lb.service_caps)
       IN  lb' = IF num = 0
                 THEN [lb EXCEPT !.pc = "done",
                                 !.metrics = compute_load_metrics(EmptyList)]
                 ELSE [lb EXCEPT
                         !.pc = "loop",
                         !.num_services = num,
                         !.used_cpu = Filled(num, 0),
                         !.used_mem = Filled(num, 0),
                         !.distribution = Filled(num, 0),
                         !.caps = [k \in DOMAIN lb.service_caps |->
                                      IrbNormalized(lb.service_caps[k])]]
    /\ UNCHANGED <<sched, build, ga, log>>

\* One iteration of `for _ in range(requests)`.
IrbStep ==
    /\ lb.pc = "loop"
    /\ lb.algorithm = "IRB LB"
    /\ lb.i < lb.requests
    /\ \E idx \in IrbChosen(IrbAvail(lb.caps, lb.used_cpu, lb.used_mem)) :
        lb' = [lb EXCEPT
                 !.distribution = Bump(lb.distribution, idx),
                 !.used_cpu = Charge(lb.used_cpu, idx, lb.caps[idx].cpu_cost),
                 !.used_mem = Charge(lb.used_mem, idx, lb.caps[idx].mem_cost),
                 !.i = lb.i + 1]
    /\ UNCHANGED <<sched, build, ga, log>>

\* metrics = compute_load_metrics(distribution), the summary, return.
IrbReturn ==
    /\ lb.pc = "loop"
    /\ lb.algorithm = "IRB LB"
    /\ lb.i = lb.requests
    /\ lb' = [lb EXCEPT
                !.pc = "done",
                !.metrics = compute_load_metrics(lb.distribution),
                !.summary = [k \in DOMAIN lb.caps |->
                                [cpu_capacity |-> lb.caps[k].cpu_capacity,
                                 mem_capacity |-> lb.caps[k].mem_capacity]]]
    /\ UNCHANGED <<sched, build, ga, log>>

\* The dicts given for one instance: both capacities and a CPU cost; the
\* key mem_cost is left out, so that its default applies.
IrbDicts ==
    [cpu_capacity : 0 .. MaxCapacity, mem_capacity : 0 .. MaxCapacity,
     cpu_cost : 1 .. MaxCpuCost]

\* Every call within the bounds.
InitIRB ==
    /\ \E requests \in 0 .. MaxIrbRequests, num \in 0 .. MaxIrbServices :
        \E service_caps \in [Range(num) -> IrbDicts] :
            lb = IrbLoadCall(requests, service_caps)
    /\ build = Off
    /\ ga = Off
    /\ SchedOff
    /\ LogOff

NextIRB ==
    \/ IrbCall
    \/ IrbStep
    \/ IrbReturn

SpecIRB == InitIRB /\ [][NextIRB]_vars

(***************************************************************************)
(* genetic_algorithm_load.  `ga` holds the arguments of the call, the      *)
(* lists population and new_population, the number of generations done,    *)
(* the index i of the mutation loop and, once the call has returned, the   *)
(* metrics of population[0].  Every random draw is a choice.               *)
(***************************************************************************)
\* Bounds of the checked calls of the genetic algorithm.
MaxGaRequests == 2
MaxGaServices == 3
MaxGenerations == 2
MaxPopulation == 3

\* l.append(x), l[:k]
PyAppend(l, x) ==
    [i \in Range(PyLen(l) + 1) |-> IF i < PyLen(l) THEN l[i] ELSE x]
PyPrefix(l, k) ==
    [i \in Range(IF k < PyLen(l) THEN k ELSE PyLen(l)) |-> l[i]]

\* fitness(distribution) = -pvariance, times len(distribution)^2; the lists
\* of one population have one length, so the order of the keys is kept.
Fitness(distribution) ==
    IF PyLen(distribution) > 0 THEN 0 - PVariance(distribution).num ELSE 0

\* sorted(population, key=fitness, reverse=True): greatest fitness first,
\* equal fitness in the order held before.
SortedByFitness(population) ==
    {[i \in DOMAIN population |-> population[f[i + 1]]] :
        f \in {g \in Perms(DOMAIN population) :
                \A p, q \in 1 .. PyLen(population) :
                    p < q => \/ Fitness(population[g[p]]) > Fitness(population[g[q]])
                             \/ /\ Fitness(population[g[p]]) = Fitness(population[g[q]])
                                /\ g[p] < g[q]}}

\* The lists left by k rounds of dist[random.randint(0, num_services-1)] += 1.
RECURSIVE Scattered(_, _)
Scattered(dist, k) ==
    IF k = 0 THEN {dist}
    ELSE UNION {Scattered(Bump(dist, idx), k - 1) :
                    idx \in RandomIndex(PyLen(dist))}

\* top_k = max(2, min(len(population), population_size // 2))
TopK(population, population_size) ==
    LET half == population_size \div 2
        least == IF PyLen(population) < half THEN PyLen(population) ELSE half
    IN  IF least > 2 THEN least ELSE 2
\* random.sample(population[:top_k], 2): two different positions, in order
ParentPairs(population, population_size) ==
    LET top == DOMAIN PyPrefix(population, TopK(population, population_size))
    IN  {pq \in top \X top : pq[1] # pq[2]}
\* cut = random.randint(1, num_services - 1) if num_services > 1 else 0
Cuts(num_services) ==
    IF num_services > 1 THEN 1 .. num_services - 1 ELSE {0}
\* child = p1[:cut] + p2[cut:]
Crossover(p1, p2, cut) ==
    [j \in Range(cut + (IF PyLen(p2) > cut THEN PyLen(p2) - cut ELSE 0)) |->
        IF j < cut THEN p1[j] ELSE p2[j]]

\* One iteration of the repair loop at the index drawn.
RepairStep(child, diff, idx) ==
    IF diff > 0 THEN Bump(child, idx)
    ELSE IF diff < 0 /\ child[idx] > 0 THEN [child EXCEPT ![idx] = @ - 1]
    ELSE child
\* The lists left by k iterations of `for _ in range(abs(diff))`.
RECURSIVE Repaired(_, _, _)
Repaired(child, diff, k) ==
    IF k = 0 THEN {child}
    ELSE UNION {Repaired(RepairStep(child, diff, idx), diff, k - 1) :
                    idx \in RandomIndex(PyLen(child))}
Abs(x) == IF x < 0 THEN 0 - x ELSE x
\* The children one pass of the while loop can append.
Children(population, population_size, requests, num_services) ==
    UNION {LET child == Crossover(population[pq[1]], population[pq[2]], cut)
               diff == requests - PySum(child)
           IN  Repaired(child, diff, Abs(diff)) :
           pq \in ParentPairs(population, population_size),
           cut \in Cuts(num_services)}

\* The individual after one pass of the mutation loop: left alone, or one
\* request moved from a to b when new_population[i][a] > 0.
Mutated(individual, num_services) ==
    {individual} \cup
    IF num_services > 1
    THEN {IF individual[ab[1]] > 0
          THEN [individual EXCEPT ![ab[1]] = @ - 1, ![ab[2]] = @ + 1]
          ELSE individual :
          ab \in {x \in Range(num_services) \X Range(num_services) :
                    x[1] # x[2]}}
    ELSE {}

\* The call as it is made by load_balancing_phase.
GaCall(requests, num_services, generations, population_size) ==
    [pc |-> "seed", requests |-> requests, num_services |-> num_services,
     generations |-> generations, population_size |-> population_size,
     population |-> EmptyList, new_population |-> EmptyList,
     generation |-> 0, i |-> 0, metrics |-> NoMetrics, err |-> "none"]

\* One pass of `for _ in range(population_size)`, or its end;
\* randint(0, -1) raises.
GaSeed ==
    /\ ga.pc = "seed"
    /\ IF PyLen(ga.population) >= ga.population_size
       THEN ga' = [ga EXCEPT !.pc = "head"]
       ELSE IF ga.requests > 0 /\ RandomIndex(ga.num_services) = {}
       THEN ga' = [ga EXCEPT !.pc = "error", !.err = "ValueError"]
       ELSE \E dist \in Scattered(Filled(ga.num_services, 0), ga.requests) :
                ga' = [ga EXCEPT !.population = PyAppend(ga.population, dist)]
    /\ UNCHANGED <<sched, build, lb, log>>

\* The head of a generation: sort, keep the top 2.
GaSelect ==
    /\ ga.pc = "head"
    /\ ga.generation < ga.generations
    /\ \E sorted \in SortedByFitness(ga.population) :
        ga' = [ga EXCEPT !.pc = "children",
                         !.population = sorted,
                         !.new_population = PyPrefix(sorted, 2)]
    /\ UNCHANGED <<sched, build, lb, log>>

\* One pass of `while len(new_population) < population_size`, or its end.
GaChild ==
    /\ ga.pc = "children"
    /\ IF PyLen(ga.new_population) >= ga.population_size
       THEN ga' = [ga EXCEPT !.pc = "mutation", !.i = 2]
       ELSE \E child \in Children(ga.population, ga.population_size,
                                  ga.requests, ga.num_services) :
                ga' = [ga EXCEPT
                        !.new_population = PyAppend(ga.new_population, child)]
    /\ UNCHANGED <<sched, build, lb, log>>

\* One pass of `for i in range(2, population_size)`, or its end followed by
\* population = new_population.
GaMutate ==
    /\ ga.pc = "mutation"
    /\ IF ga.i >= ga.population_size
       THEN ga' = [ga EXCEPT !.pc = "head",
                             !.population = ga.new_population,
                             !.generation = ga.generation + 1]
       ELSE \E individual \in Mutated(ga.new_population[ga.i], ga.num_services) :
                ga' = [ga EXCEPT !.new_population[ga.i] = individual,
                                 !.i = ga.i + 1]
    /\ UNCHANGED <<sched, build, lb, log>>

\* best = population[0] raises on an empty population.
GaReturn ==
    /\ ga.pc = "head"
    /\ ga.generation >= ga.generations
    /\ ga' = IF PyLen(ga.population) = 0
             THEN [ga EXCEPT !.pc = "error", !.err = "IndexError"]
             ELSE [ga EXCEPT !.pc = "done",
                             !.metrics = compute_load_metrics(ga.population[0])]
    /\ UNCHANGED <<sched, build, lb, log>>

\* Every call within the bounds.
InitGA ==
    /\ \E requests \in 0 .. MaxGaRequests, num \in 0 .. MaxGaServices,
          generations \in 0 .. MaxGenerations, size \in 0 .. MaxPopulation :
            ga = GaCall(requests, num, generations, size)
    /\ build = Off
    /\ lb = Off
    /\ SchedOff
    /\ LogOff

NextGA ==
    \/ GaSeed
    \/ GaSelect
    \/ GaChild
    \/ GaMutate
    \/ GaReturn

SpecGA == InitGA /\ [][NextGA]_vars

(***************************************************************************)
(* The result log.  `log_file` is the CSV file: its first row is the       *)
(* header, a sequence of column names, and every other row is a sequence   *)
(* of cells, each the text the csv writer puts for a value.  A result is   *)
(* a dict, modelled as the sequence of its (key, value) items in insertion *)
(* order; the values are ints.                                             *)
(***************************************************************************)
MaxCsvCalls == 3
MaxResultKeys == 2
MaxValue == 2

DEFAULT_CSV_HEADERS ==
    <<"phase", "strategy", "algorithm", "total_time", "speedup", "efficiency",
      "avg_load", "max_load", "min_load", "variance", "fairness_index",
      "load_imbalance", "avg_waiting", "avg_turnaround", "avg_response">>

\* x in l
In(x, l) == \E i \in DOMAIN l : l[i] = x
\* [x for x in l if x not in other]
NotIn(l, other) == SelectSeq(l, LAMBDA x : ~In(x, other))
\* list(result.keys()), k in result, result[k]
Keys(result) == [i \in DOMAIN result |-> result[i][1]]
HasKey(result, k) == In(k, Keys(result))
Value(result, k) == result[CHOOSE i \in DOMAIN result : result[i][1] = k][2]
\* The text the csv writer puts for an int.
CsvText(v) == ToString(v)

\* headers[0] != "phase": headers = ["phase"] + [h for h in headers if h != "phase"]
PhaseFirst(headers) ==
    IF headers[1] # "phase"
    THEN <<"phase">> \o SelectSeq(headers, LAMBDA h : h # "phase")
    ELSE headers

\* row.get(h, "") once row holds "" per header, the phase and the items of
\* result, as the writer puts it.
RowCell(result, ph, h) ==
    IF HasKey(result, h) THEN CsvText(Value(result, h))
    ELSE IF h = "phase" THEN ph
    ELSE ""
\* outrow = {h: row.get(h, "") for h in headers}, in the writer's order
OutRow(result, ph, headers) ==
    [j \in DOMAIN headers |-> RowCell(result, ph, headers[j])]

\* csv.DictReader: the cell of row r under column h of the header it read;
\* a later column of the same name wins, and a row too short for the column
\* gives None, which the writer puts as the empty text.
ReadCell(header, r, h) ==
    LET at == {i \in DOMAIN header : header[i] = h /\ i <= Len(r)}
    IN  IF at = {} THEN ""
        ELSE r[CHOOSE i \in at : \A k \in at : k <= i]
\* The file rewritten under new_headers: the header, then every data row
\* read under the old header and written under the new one.
Rewritten(rows, new_headers) ==
    <<new_headers>> \o
        [p \in 1 .. Len(rows) - 1 |->
            [j \in DOMAIN new_headers |->
                ReadCell(rows[1], rows[p + 1], new_headers[j])]]

\* extra_keys = [k for k in result.keys() if k not in headers]
ExtraKeys(result, headers) == NotIn(Keys(result), headers)
\* missing = [k for k in extra_keys if k not in existing_header]
Missing(extra_keys, existing_header) == NotIn(extra_keys, existing_header)
\* The header is rewritten: the file exists, result has keys outside
\* headers, a header row can be read and lacks one of those keys.
MustRewrite(f, result, headers) ==
    /\ f.exists
    /\ ExtraKeys(result, headers) # <<>>
    /\ Len(f.rows) > 0
    /\ Missing(ExtraKeys(result, headers), f.rows[1]) # <<>>
\* The headers the appended row is written under.
AppendHeaders(f, result, headers) ==
    IF MustRewrite(f, result, headers)
    THEN f.rows[1] \o Missing(ExtraKeys(result, headers), f.rows[1])
    ELSE headers

\* save_results_csv(result, phase) on the file f, headers left to default.
save_results_csv(f, result, ph) ==
    LET headers == PhaseFirst(DEFAULT_CSV_HEADERS)
        write_header == ~f.exists
        final == AppendHeaders(f, result, headers)
        before == IF MustRewrite(f, result, headers)
                  THEN Rewritten(f.rows, final)
                  ELSE f.rows
        head == IF write_header THEN <<final>> ELSE <<>>
    IN  [exists |-> TRUE,
         rows |-> before \o head \o <<OutRow(result, ph, final)>>]

\* The dicts of at most MaxResultKeys of three keys, one of the header and
\* two outside it, in each insertion order.
Results ==
    LET keys == {"algorithm", "average_load", "distribution"}
    IN  UNION {{r \in [1 .. k -> keys \X (1 .. MaxValue)] :
                    \A a, b \in 1 .. k : a # b => r[a][1] # r[b][1]} :
               k \in 0 .. MaxResultKeys}

\* One call of save_results_csv.
SaveResultsCsv ==
    /\ Len(log_file.rows) <= MaxCsvCalls
    /\ \E result \in Results :
            log_file' = save_results_csv(log_file, result, "LoadBalancing")
    /\ UNCHANGED <<sched, build, lb, ga, phase>>

\* No log file yet, and nothing else in progress.
InitCsv ==
    /\ log_file = NoFile
    /\ phase = Off
    /\ build = Off
    /\ lb = Off
    /\ ga = Off
    /\ SchedOff

NextCsv == SaveResultsCsv

SpecCsv == InitCsv /\ [][NextCsv]_vars

(***************************************************************************)
(* save_results of build_simulator.  A value of `data` is an int or a str, *)
(* [int |-> v] or [str |-> s]; `data` is a function from its keys.         *)
(***************************************************************************)
MaxLogCalls == 2

CSV_HEADERS ==
    <<"phase", "strategy", "algorithm", "total_time", "speedup", "efficiency",
      "avg_load", "max_load", "min_load", "variance", "fairness_index",
      "load_imbalance", "avg_waiting", "avg_turnaround", "avg_response">>

PyInt(v) == [int |-> v]
PyStr(s) == [str |-> s]
\* The text the csv writer puts for a value.
WriterText(v) == IF "str" \in DOMAIN v THEN v.str ELSE ToString(v.int)

\* os.path.isfile(LOG_FILE)
IsFileNever(f) == FALSE
IsFile(f) == f.exists

\* row = {key: data.get(key, "") for key in CSV_HEADERS}, as written
LogRow(data) ==
    [j \in DOMAIN CSV_HEADERS |->
        WriterText(DictGet(data, CSV_HEADERS[j], PyStr("")))]

\* save_results(data) on the file f: the header if the file is new, the row.
save_results(f, data) ==
    [exists |-> TRUE,
     rows |-> f.rows
                \o (IF ~IsFile(f) THEN <<CSV_HEADERS>> ELSE <<>>)
                \o <<LogRow(data)>>]

\* Dicts of some of three keys, one of them outside CSV_HEADERS, with an int
\* or a str under each.
Data ==
    UNION {[K -> {PyStr("Build")} \cup {PyInt(v) : v \in 1 .. MaxValue}] :
           K \in SUBSET {"phase", "total_time", "distribution"}}

\* One call of save_results.
SaveResults ==
    /\ Len(log_file.rows) <= MaxLogCalls
    /\ \E data \in Data : log_file' = save_results(log_file, data)
    /\ UNCHANGED <<sched, build, lb, ga, phase>>

NextLog == SaveResults

SpecLog == InitCsv /\ [][NextLog]_vars

(***************************************************************************)
(* The phases of build_simulator: build_phase, load_balancing_phase and    *)
(* scheduling_phase.  `phase` holds what the phase has read (its inputs    *)
(* and the menu choice) and where it is: "choice" (the choice has been     *)
(* read), "strategy" (the chosen strategy is running), "returned", or      *)
(* "raised" when the strategy's exception has left the phase.  The         *)
(* strategy runs by the actions above, on `build`, `lb`, `ga` or the       *)
(* scheduling variables.                                                   *)
(***************************************************************************)
MaxPhaseServices == 2
MaxPhaseRequests == 2

\* parallel_build: total_time = avg_time; the two divisions raise on 0.
ParallelBuild ==
    /\ build.pc = "start"
    /\ build.strategy = "parallel"
    /\ LET seq_time == build.num_services * build.avg_time
       IN  build' = IF build.avg_time = 0 \/ build.num_services = 0
                    THEN [build EXCEPT !.pc = "error", !.err = "ZeroDivisionError"]
                    ELSE [build EXCEPT
                            !.pc = "done",
                            !.total_time = build.avg_time,
                            !.speedup = [num |-> seq_time, den |-> build.avg_time]]
    /\ UNCHANGED <<sched, lb, ga, log>>

\* The slimming factors entered: 0.5, the default 0.7, and 1.0.
SlimmingFactors == {[num |-> 1, den |-> 2], [num |-> 7, den |-> 10], One}
\* total_time = int(seq_time * slimming_factor)
SlimTotal(num_services, avg_time, factor) ==
    (num_services * avg_time * factor.num) \div factor.den

\* slim_image_build; speedup = seq_time / total_time raises on 0.
SlimImageBuild ==
    /\ build.pc = "start"
    /\ build.strategy = "slim"
    /\ LET seq_time == build.num_services * build.avg_time
           total == SlimTotal(build.num_services, build.avg_time,
                              build.slimming_factor)
       IN  build' = IF total = 0
                    THEN [build EXCEPT !.pc = "error", !.err = "ZeroDivisionError"]
                    ELSE [build EXCEPT
                            !.pc = "done",
                            !.total_time = total,
                            !.speedup = [num |-> seq_time, den |-> total]]
    /\ UNCHANGED <<sched, lb, ga, log>>

\* rrb_load before its loop; with no service it returns the empty metrics.
RrbCall ==
    /\ lb.pc = "start"
    /\ lb.algorithm = "RRB LB"
    /\ lb' = IF lb.num_services <= 0
             THEN [lb EXCEPT !.pc = "done"]
             ELSE [lb EXCEPT !.pc = "loop",
                             !.distribution = Filled(lb.num_services, 0)]
    /\ UNCHANGED <<sched, build, ga, log>>

\* One iteration of `for _ in range(requests)`.  With the default epsilon
\* of 0.1 the exploring branch can draw any instance, so every index is a
\* possible idx; the Q-values bear on nothing but that draw.
RrbStep ==
    /\ lb.pc = "loop"
    /\ lb.algorithm = "RRB LB"
    /\ lb.i < lb.requests
    /\ \E idx \in RandomIndex(lb.num_services) :
            lb' = [lb EXCEPT !.distribution = Bump(lb.distribution, idx),
                             !.i = lb.i + 1]
    /\ UNCHANGED <<sched, build, ga, log>>

\* metrics = compute_load_metrics(distribution); return metrics
RrbReturn ==
    /\ lb.pc = "loop"
    /\ lb.algorithm = "RRB LB"
    /\ lb.i = lb.requests
    /\ lb' = [lb EXCEPT !.pc = "done",
                        !.metrics = compute_load_metrics(lb.distribution)]
    /\ UNCHANGED <<sched, build, ga, log>>

\* f"{x:.2f}", round(x, 2) put through an f-string: the text of the number
\* x under that format, kept as the pair.
Format(spec, x) == [format |-> spec, of |-> x]

\* The call each number of the menu of build_phase makes.
BuildCalls(p) ==
    CASE p.choice = 1 -> {BuildCall("sequential", p.num_services, p.avg_time, 0)}
      [] p.choice = 2 -> {BuildCall("parallel", p.num_services, p.avg_time, 0)}
      [] p.choice = 3 -> {BuildCall("cached", p.num_services, p.avg_time, changed) :
                            changed \in 0 .. p.num_services}
      [] p.choice = 4 -> {BuildCall("slim", p.num_services, p.avg_time, 0)
                            @@ [slimming_factor |-> factor] :
                            factor \in SlimmingFactors}
      [] OTHER -> {}

\* if choice == 1: ... else: print("Invalid choice!"); return
BuildPhaseChoice ==
    /\ phase.pc = "choice"
    /\ phase.name = "Build"
    /\ IF BuildCalls(phase) # {}
       THEN /\ build' \in BuildCalls(phase)
            /\ phase' = [phase EXCEPT !.pc = "strategy"]
       ELSE /\ phase' = [phase EXCEPT !.pc = "returned"]
            /\ UNCHANGED build
    /\ UNCHANGED <<sched, lb, ga, log_file>>

\* result["strategy"]
StrategyName(strategy) ==
    CASE strategy = "sequential" -> "Sequential Build"
      [] strategy = "parallel" -> "Parallel Build"
      [] strategy = "cached" -> "Cached Build"
      [] strategy = "slim" -> "Slim Image Build"

\* The dict build_phase gives save_results; sequential_build returns the
\* floats 1.0, the others round(speedup, 2) and the same for efficiency,
\* parallel_build round(speedup / num_services, 2).
BuildData(b) ==
    LET speedup == IF b.strategy = "sequential" THEN PyStr("1.0")
                   ELSE PyStr(Format("round2", b.speedup))
        efficiency ==
            IF b.strategy = "parallel"
            THEN PyStr(Format("round2",
                              [num |-> b.speedup.num,
                               den |-> b.speedup.den * b.num_services]))
            ELSE speedup
    IN  [phase |-> PyStr("Build"),
         strategy |-> PyStr(StrategyName(b.strategy)),
         total_time |-> PyInt(b.total_time),
         speedup |-> speedup,
         efficiency |-> efficiency]

\* The strategy has returned: the prints, then save_results.
BuildPhaseSave ==
    /\ phase.pc = "strategy"
    /\ phase.name = "Build"
    /\ build.pc = "done"
    /\ log_file' = save_results(log_file, BuildData(build))
    /\ phase' = [phase EXCEPT !.pc = "returned"]
    /\ UNCHANGED <<sched, build, lb, ga>>

\* The capacities _collect_service_caps reads for one instance.
PhaseCaps ==
    [cpu_capacity : 0 .. MaxCapacity, mem_capacity : 0 .. MaxCapacity,
     cpu_cost : 1 .. MaxCpuCost, mem_cost : {1}]

\* if choice == 1: ... else: print("Invalid choice!"); return
LoadBalancingPhaseChoice ==
    /\ phase.pc = "choice"
    /\ phase.name = "LoadBalancing"
    /\ LET num == phase.num_services
           requests == phase.requests
       IN  CASE phase.choice = 1 ->
                    /\ lb' = LoadCall("Round Robin", requests, num, EmptyList)
                    /\ UNCHANGED ga
             [] phase.choice = 2 ->
                    /\ \E initial_loads \in [Range(num) -> 0 .. MaxInitialLoad] :
                            lb' = LoadCall("Least Connections", requests, num,
                                           initial_loads)
                    /\ UNCHANGED ga
             [] phase.choice = 3 ->
                    /\ lb' = LoadCall("Random", requests, num, EmptyList)
                    /\ UNCHANGED ga
             [] phase.choice = 4 ->
                    /\ \E gens \in 0 .. MaxGenerations, pop \in 0 .. MaxPopulation :
                            ga' = GaCall(requests, num, gens, pop)
                    /\ UNCHANGED lb
             [] phase.choice = 5 ->
                    /\ \E caps \in [Range(num) -> PhaseCaps] :
                            lb' = IrbLoadCall(requests, caps)
                    /\ UNCHANGED ga
             [] phase.choice = 6 ->
                    /\ lb' = LoadCall("RRB LB", requests, num, EmptyList)
                    /\ UNCHANGED ga
             [] OTHER -> UNCHANGED <<lb, ga>>
    /\ phase' = [phase EXCEPT
                    !.pc = IF phase.choice \in 1 .. 6 THEN "strategy"
                           ELSE "returned"]
    /\ UNCHANGED <<sched, build, log_file>>

\* metrics["algorithm"]; irb_load and rrb_load return the empty metrics,
\* which have no such key, when there is no instance.
AlgorithmName(l) ==
    CASE l.algorithm = "IRB LB" ->
            IF PyLen(l.service_caps) = 0 THEN ""
            ELSE "IRB LB (Instance Resource-Based)"
      [] l.algorithm = "RRB LB" ->
            IF l.num_services <= 0 THEN ""
            ELSE "RRB LB (Reinforcement Round-Robin)"
      [] OTHER -> l.algorithm

\* The dict load_balancing_phase gives save_results.
LoadData(algorithm, metrics) ==
    [phase |-> PyStr("LoadBalancing"),
     algorithm |-> PyStr(algorithm),
     avg_load |-> PyStr(Format(".2f", metrics.average_load)),
     max_load |-> PyInt(metrics.max_load),
     min_load |-> PyInt(metrics.min_load),
     variance |-> PyStr(Format(".2f", metrics.variance)),
     fairness_index |-> PyStr(Format(".4f", metrics.fairness_index)),
     load_imbalance |-> PyStr(Format(".2f", metrics.load_imbalance))]

\* The strategy has returned: the prints, then save_results.
LoadBalancingPhaseSave ==
    /\ phase.pc = "strategy"
    /\ phase.name = "LoadBalancing"
    /\ \/ /\ phase.choice # 4
          /\ lb.pc = "done"
          /\ log_file' = save_results(log_file,
                                      LoadData(AlgorithmName(lb), lb.metrics))
       \/ /\ phase.choice = 4
          /\ ga.pc = "done"
          /\ log_file' =
                save_results(log_file,
                             LoadData("Genetic Algorithm (Load Balancing)",
                                      ga.metrics))
    /\ phase' = [phase EXCEPT !.pc = "returned"]
    /\ UNCHANGED <<sched, build, lb, ga>>

\* The menu of scheduling_phase: ["FCFS", "SJF", "SRTF", "HRRN"][choice-1].
SchedulingMenu == <<"FCFS", "SJF", "SRTF", "HRRN">>

\* if choice == 1: ... else: print("Invalid choice!"); return
SchedulingPhaseChoice ==
    /\ phase.pc = "choice"
    /\ phase.name = "Scheduling"
    /\ IF phase.choice \in DOMAIN SchedulingMenu
       THEN /\ policy' = SchedulingMenu[phase.choice]
            /\ arrival_times' = phase.arrival_times
            /\ burst_times' = phase.burst_times
            /\ pc' = "start"
            /\ phase' = [phase EXCEPT !.pc = "strategy"]
       ELSE /\ phase' = [phase EXCEPT !.pc = "returned"]
            /\ UNCHANGED <<inputs, pc>>
    /\ UNCHANGED <<err, locals, results, avgs, build, lb, ga, log_file>>

\* The dict scheduling_phase gives save_results.
SchedulingData ==
    [phase |-> PyStr("Scheduling"),
     algorithm |-> PyStr(SchedulingMenu[phase.choice]),
     avg_waiting |-> PyStr(Format(".2f", avg_waiting)),
     avg_turnaround |-> PyStr(Format(".2f", avg_turnaround)),
     avg_response |-> PyStr(Format(".2f", avg_response))]

\* The policy has returned: the prints, then save_results.
SchedulingPhaseSave ==
    /\ phase.pc = "strategy"
    /\ phase.name = "Scheduling"
    /\ pc = "done"
    /\ log_file' = save_results(log_file, SchedulingData)
    /\ phase' = [phase EXCEPT !.pc = "returned"]
    /\ UNCHANGED <<sched, build, lb, ga>>

\* The strategy raised: nothing in the phase catches it.
PhaseRaise ==
    /\ phase.pc = "strategy"
    /\ \/ build.pc = "error"
       \/ lb.pc = "error"
       \/ ga.pc = "error"
       \/ pc = "error"
    /\ phase' = [phase EXCEPT !.pc = "raised"]
    /\ UNCHANGED <<sched, build, lb, ga, log_file>>

\* A phase has read its inputs and its menu choice, one number below the
\* menu and one above it included; the job sets are valid ones.  No log
\* file exists yet.
InitPhase ==
    /\ \/ \E num \in 0 .. MaxBuildServices, avg \in 0 .. MaxAvgTime,
             choice \in 0 .. 5 :
                phase = [pc |-> "choice", name |-> "Build", num_services |-> num,
                         avg_time |-> avg, choice |-> choice]
       \/ \E num \in 0 .. MaxPhaseServices, requests \in 0 .. MaxPhaseRequests,
             choice \in 0 .. 7 :
                phase = [pc |-> "choice", name |-> "LoadBalancing",
                         num_services |-> num, requests |-> requests,
                         choice |-> choice]
       \/ \E k \in 0 .. MaxJobs, choice \in 0 .. 5 :
            \E at \in [Range(k) -> 0 .. MaxArrival],
               bt \in [Range(k) -> 1 .. MaxBurst] :
                phase = [pc |-> "choice", name |-> "Scheduling",
                         arrival_times |-> at, burst_times |-> bt,
                         choice |-> choice]
    /\ log_file = NoFile
    /\ build = Off
    /\ lb = Off
    /\ ga = Off
    /\ SchedOff

NextPhase ==
    \/ BuildPhaseChoice
    \/ SequentialBuild
    \/ ParallelBuild
    \/ CachedBuild
    \/ SlimImageBuild
    \/ BuildPhaseSave
    \/ LoadBalancingPhaseChoice
    \/ NextLB
    \/ NextIRB
    \/ NextGA
    \/ RrbCall
    \/ RrbStep
    \/ RrbReturn
    \/ LoadBalancingPhaseSave
    \/ SchedulingPhaseChoice
    \/ Next
    \/ SchedulingPhaseSave
    \/ PhaseRaise

SpecPhase == InitPhase /\ [][NextPhase]_vars

(***************************************************************************)
(* The result of fcfs_scheduling as a function of its input, for comparing *)
(* another policy's result with it.                                        *)
(***************************************************************************)
FcfsOrder(at) == CHOOSE o \in FcfsOrders(at) : TRUE

\* The sum of the waiting times compute_detailed_metrics records while it
\* walks `ord` from position p with the clock at t.
RECURSIVE WalkWaiting(_, _, _, _, _)
WalkWaiting(at, bt, ord, p, t) ==
    IF p > Len(ord) THEN 0
    ELSE LET idx == ord[p]
             st == MetricsStart(t, at[idx])
             ct == Completion(st, bt[idx])
         IN  Waiting(Turnaround(ct, at[idx]), bt[idx])
                 + WalkWaiting(at, bt, ord, p + 1, ct)

\* sum(fcfs_scheduling(at, bt)["waiting_times"])
FcfsWaitingSum(at, bt) == WalkWaiting(at, bt, FcfsOrder(at), 1, 0)

(***************************************************************************)
(* Properties                                                              *)
(***************************************************************************)
Jobs == DOMAIN burst_times
NonPreemptive == {"FCFS", "SJF", "HRRN"}
\* How many slots of `order` hold job j.
Runs(j) == Cardinality({p \in DOMAIN order : order[p] = j})

\* C1: when any of the four policies returns on a valid job set, every job j
\* has turnaround = completion - arrival, waiting = turnaround - burst and
\* response = start - arrival.
C1_DerivedFields ==
    pc = "done" =>
        \A j \in Jobs :
            /\ turnaround_times[j] = completion_times[j] - arrival_times[j]
            /\ waiting_times[j] = turnaround_times[j] - burst_times[j]
            /\ response_times[j] = start_times[j] - arrival_times[j]

\* An SRTF run has returned in which a job arriving after time 0 was
\* preempted: it waited longer than it took to respond.
C1_Witness ==
    /\ pc = "done"
    /\ policy = "SRTF"
    /\ \E j \in Jobs :
        /\ arrival_times[j] > 0
        /\ waiting_times[j] > response_times[j]

\* C2: when any policy returns on a valid job set, every job has
\* completion >= arrival + service, waiting >= 0 and response >= 0, and the
\* three means are >= 0.
C2_NonNegative ==
    pc = "done" =>
        /\ \A j \in Jobs :
            /\ completion_times[j] >= arrival_times[j] + burst_times[j]
            /\ waiting_times[j] >= 0
            /\ response_times[j] >= 0
        /\ avg_waiting.num >= 0 /\ avg_waiting.den > 0
        /\ avg_turnaround.num >= 0 /\ avg_turnaround.den > 0
        /\ avg_response.num >= 0 /\ avg_response.den > 0

\* An FCFS run has returned in which the processor sat idle until a job
\* arrived (that job started on arrival, after every earlier job had ended)
\* and another job had to wait.
C2_Witness ==
    /\ pc = "done"
    /\ policy = "FCFS"
    /\ \E j, k \in Jobs :
        /\ completion_times[k] < arrival_times[j]
        /\ start_times[j] = arrival_times[j]
    /\ \E j \in Jobs : waiting_times[j] > 0

\* C3: under FCFS, SJF and HRRN every job of a valid job set has
\* response = waiting and completion = start + service.
C3_NonPreemptive ==
    (pc = "done" /\ policy \in NonPreemptive) =>
        \A j \in Jobs :
            /\ response_times[j] = waiting_times[j]
            /\ completion_times[j] = start_times[j] + burst_times[j]

\* An HRRN run has returned in which a job of more than one time unit
\* started only after waiting.
C3_Witness ==
    /\ pc = "done"
    /\ policy = "HRRN"
    /\ \E j \in Jobs : waiting_times[j] > 0 /\ burst_times[j] > 1

\* C4: for every policy and every valid non-empty job set the sum of the
\* service times is <= the largest completion time.
C4_Conservation ==
    (pc = "done" /\ Jobs # {}) =>
        \E j \in Jobs : completion_times[j] >= PySum(burst_times)

\* An SRTF run of several jobs has returned whose makespan is exactly the
\* total service time: the processor never idled.
C4_Witness ==
    /\ pc = "done"
    /\ policy = "SRTF"
    /\ PyLen(burst_times) >= 2
    /\ \A j \in Jobs : completion_times[j] <= PySum(burst_times)

\* C5: on every valid job set the total (hence the mean) waiting time SRTF
\* returns is <= the total waiting time FCFS returns on the same input.
C5_SrtfNoWorseThanFcfs ==
    (pc = "done" /\ policy = "SRTF") =>
        PySum(waiting_times) <= FcfsWaitingSum(arrival_times, burst_times)

\* An SRTF run has returned that waits strictly less than FCFS does.
C5_Witness ==
    /\ pc = "done"
    /\ policy = "SRTF"
    /\ PySum(waiting_times) < FcfsWaitingSum(arrival_times, burst_times)

\* C6: no step of a policy has more than one possible successor: wherever a
\* run selects (the sorted order, the shortest job, the job of least
\* remaining time, the job of highest ratio) exactly one value can be
\* selected, and everything else in a step is a function of the state.
C6_Deterministic ==
    /\ (pc = "start" /\ policy = "FCFS") =>
            Cardinality(FcfsOrders(arrival_times)) = 1
    /\ (pc = "sjf_loop" /\ remaining # {}) =>
            Cardinality(SjfShortest(SjfReady(remaining, time))) = 1
    /\ (pc = "srtf_loop" /\ completed < n /\ SrtfAvailable(time) # {}) =>
            Cardinality(SrtfShortest(SrtfAvailable(time))) = 1
    /\ (pc = "hrrn_loop" /\ completed < n /\ HrrnAvailable(time) # {}) =>
            Cardinality(HrrnChosen(HrrnAvailable(time), time)) = 1

\* SJF is about to select among several ready jobs that tie on the least
\* service time.
C6_Witness ==
    /\ pc = "sjf_loop"
    /\ \E i, j \in SjfReady(remaining, time) :
        /\ i # j
        /\ burst_times[i] = burst_times[j]
        /\ \A k \in SjfReady(remaining, time) : burst_times[i] <= burst_times[k]

\* C7: on the empty job set no policy raises or stops short of returning,
\* and each returns an empty order, empty per-job lists and three means 0.
C7_EmptyJobSet ==
    (arrival_times = EmptyList /\ burst_times = EmptyList) =>
        /\ pc # "error"
        /\ pc # "done" => ENABLED Next
        /\ time = 0
        /\ pc = "done" =>
            /\ order = <<>>
            /\ start_times = EmptyList
            /\ completion_times = EmptyList
            /\ waiting_times = EmptyList
            /\ turnaround_times = EmptyList
            /\ response_times = EmptyList
            /\ avg_waiting = Zero
            /\ avg_turnaround = Zero
            /\ avg_response = Zero

\* HRRN has returned on the empty job set.
C7_Witness ==
    /\ pc = "done"
    /\ policy = "HRRN"
    /\ arrival_times = EmptyList
    /\ burst_times = EmptyList

\* C8: on an invalid input (lengths differ, a negative arrival time, a
\* service time <= 0) a run never leaves its start except by raising
\* InvalidInput: no loop state is created and no result is returned.
C8_InvalidInputRejected ==
    ~ValidInput => (pc = "start" \/ (pc = "error" /\ err = "InvalidInput"))

\* C9: every srtf_scheduling run reaches a terminal state.  The loop leaves
\* only through completed >= n (there is no tick budget and no failed-run
\* exit), a job is selected only while its remaining time is > 0, and a
\* remaining time changes only when its job is selected; so a run whose
\* list comprehension does not raise ends iff, while jobs are uncompleted,
\* some job still has work left.
C9_SrtfLoopEnds ==
    (pc = "srtf_loop" /\ completed < n /\ Range(n) \subseteq DOMAIN arrival_times) =>
        \E i \in Range(n) : remaining_times[i] > 0

\* The result of a finished run: one entry per job in each list, and every
\* job run to completion exactly once (SRTF: one slot of `order` per unit
\* of service; the others: one slot per job).
ResultComplete ==
    /\ DOMAIN start_times = Jobs
    /\ DOMAIN completion_times = Jobs
    /\ DOMAIN waiting_times = Jobs
    /\ DOMAIN turnaround_times = Jobs
    /\ DOMAIN response_times = Jobs
    /\ \A j \in Jobs :
        /\ Runs(j) = IF policy = "SRTF" THEN burst_times[j] ELSE 1
        /\ completion_times[j] > 0
    /\ Len(order) = IF policy = "SRTF" THEN PySum(burst_times) ELSE PyLen(burst_times)

\* C10: on every valid job set each policy terminates, and it returns a
\* result holding one entry per job with every job completed exactly once.
C10_Terminates == <>(pc = "done" /\ ResultComplete)

\* An SRTF run of several jobs has returned a complete result.
C10_Witness ==
    /\ pc = "done"
    /\ policy = "SRTF"
    /\ PyLen(burst_times) >= 2
    /\ ResultComplete

\* The run is on the job set sc.
RunsOn(sc) == arrival_times = sc.at /\ burst_times = sc.bt

\* C11 as claimed: SRTF on arrivals [0,1,2], services [5,3,1] has job0 run
\* until job2 preempts it at t=2 (job0 ran in ticks 0 and 1, job2 in tick
\* 2), job2 complete at 3, job1 at 6 and job0 at 10.
C11_ScenarioC_AsClaimed ==
    (pc = "done" /\ policy = "SRTF" /\ RunsOn(ScenarioC)) =>
        /\ order[1] = 0 /\ order[2] = 0 /\ order[3] = 2
        /\ completion_times[2] = 3
        /\ completion_times[1] = 6
        /\ completion_times[0] = 10

\* C11 amended: on that job set job1 preempts job0 at t=1 (job0 has 4 units
\* left), job2 preempts job1 at t=2 (job1 has 2 left) and completes at 3,
\* job1 resumes and completes at 5, job0 resumes last and completes at 9.
C11_ScenarioC ==
    (policy = "SRTF" /\ RunsOn(ScenarioC)) =>
        /\ (pc = "srtf_loop" /\ time = 1) =>
                remaining_times = PyList(<<4, 3, 1>>) /\ order = <<0>>
        /\ (pc = "srtf_loop" /\ time = 2) =>
                remaining_times = PyList(<<4, 2, 1>>) /\ order = <<0, 1>>
        /\ pc = "done" =>
            /\ order = <<0, 1, 2, 1, 1, 0, 0, 0, 0>>
            /\ start_times = PyList(<<0, 1, 2>>)
            /\ completion_times = PyList(<<9, 5, 3>>)

\* SRTF has returned on the job set of scenario C.
C11_Witness == pc = "done" /\ policy = "SRTF" /\ RunsOn(ScenarioC)

\* C12: FCFS on arrivals [0,1,2], services [5,3,8] returns order [0,1,2],
\* start times [0,5,8], completion times [5,8,16], waiting times [0,4,6]
\* and avg_waiting 10/3.
C12_ScenarioA ==
    (pc = "done" /\ policy = "FCFS" /\ RunsOn(ScenarioA)) =>
        /\ order = <<0, 1, 2>>
        /\ start_times = PyList(<<0, 5, 8>>)
        /\ completion_times = PyList(<<5, 8, 16>>)
        /\ waiting_times = PyList(<<0, 4, 6>>)
        /\ avg_waiting.num = 10 /\ avg_waiting.den = 3

\* FCFS has returned on the job set of scenario A.
C12_Witness == pc = "done" /\ policy = "FCFS" /\ RunsOn(ScenarioA)

\* A job set for scenario D: job1 (service 3) has waited since t=1 when
\* job0 ends at t=2, the instant job2 (service 1) arrives.
ScenarioD == [at |-> PyList(<<0, 1, 2>>), bt |-> PyList(<<2, 3, 1>>)]

\* C13: there is a valid job set on which HRRN selects a waiting job of the
\* larger service time over a ready job that has just arrived with a
\* smaller one, its ratio being strictly higher.  On arrivals [0,1,2],
\* services [2,3,1] the second decision is made at t=2 with jobs 1 and 2
\* ready, job2 arriving at that instant; job1's ratio 4/3 exceeds job2's 1
\* and job1 is the job started at t=2.
C13_ScenarioD ==
    (policy = "HRRN" /\ RunsOn(ScenarioD)) =>
        /\ (pc = "hrrn_loop" /\ completed = 1) =>
            /\ time = 2
            /\ {i \in Jobs : ~done[i] /\ arrival_times[i] <= time} = {1, 2}
            /\ arrival_times[2] = time
            /\ burst_times[1] > burst_times[2]
            /\ (time - arrival_times[1] + burst_times[1]) * burst_times[2]
                   > (time - arrival_times[2] + burst_times[2]) * burst_times[1]
        /\ completed >= 2 => (order[2] = 1 /\ start_times[1] = 2)
        /\ pc = "done" => order = <<0, 1, 2>>

\* HRRN has just made that second decision.
C13_Witness ==
    /\ policy = "HRRN"
    /\ RunsOn(ScenarioD)
    /\ pc = "hrrn_loop"
    /\ completed = 2
    /\ order = <<0, 1>>

\* C14: SJF on arrivals [0,1,2], services [5,3,8] returns order [0,1,2]:
\* job0 is the only job ready at the first decision; at the second, jobs 1
\* and 2 are ready and job1 (service 3) is taken before job2 (service 8).
C14_ScenarioB ==
    (policy = "SJF" /\ RunsOn(ScenarioA)) =>
        /\ (pc = "sjf_loop" /\ order = <<>>) =>
                {i \in remaining : arrival_times[i] <= time} = {0}
        /\ (pc = "sjf_loop" /\ Len(order) = 1) =>
                /\ order = <<0>>
                /\ {i \in remaining : arrival_times[i] <= time} = {1, 2}
        /\ (pc = "sjf_loop" /\ Len(order) = 2) => order = <<0, 1>>
        /\ pc = "done" => order = <<0, 1, 2>>

\* SJF has returned on the job set of scenario B.
C14_Witness == pc = "done" /\ policy = "SJF" /\ RunsOn(ScenarioA)

\* C15: no step of a scheduling run changes the caller's arrival_times or
\* burst_times, so after the return they hold what they held at the call.
C15_InputsNotMutated ==
    [][arrival_times' = arrival_times /\ burst_times' = burst_times]_vars

\* SRTF has returned: its private copy of the service times was counted
\* down while the caller's list kept its values.
C15_Witness ==
    /\ pc = "done"
    /\ policy = "SRTF"
    /\ Jobs # {}
    /\ \A j \in Jobs : remaining_times[j] = 0 /\ burst_times[j] > 0

\* The slot of `order` holding job j.
Slot(j) == CHOOSE p \in DOMAIN order : order[p] = j
\* Job i comes before job j in first-come-first-served order.
ArrivesFirst(i, j) ==
    \/ arrival_times[i] < arrival_times[j]
    \/ (arrival_times[i] = arrival_times[j] /\ i < j)

\* C19: FCFS runs the jobs in ascending order of arrival time, ties by lower
\* index: if job i arrives first (or at the same time with i < j) then i is
\* before j in order and completes no later than j starts.
C19_FcfsOrder ==
    (pc = "done" /\ policy = "FCFS") =>
        /\ \A j \in Jobs : Runs(j) = 1
        /\ \A i, j \in Jobs :
            ArrivesFirst(i, j) =>
                /\ Slot(i) < Slot(j)
                /\ completion_times[i] <= start_times[j]

\* FCFS has returned on a job set with two jobs arriving together and a
\* job arriving before one of lower index.
C19_Witness ==
    /\ pc = "done"
    /\ policy = "FCFS"
    /\ \E i, j \in Jobs : i < j /\ arrival_times[i] = arrival_times[j]
    /\ \E i, j \in Jobs : i < j /\ arrival_times[i] > arrival_times[j]

\* C20: every selection of SJF takes, among the unscheduled jobs that have
\* arrived by the clock of the selection, the one of smallest service time,
\* and of smallest index among those.  The clock of a selection is the
\* clock after it less the service time of the job selected.
C20_SjfPicksShortest ==
    [][(pc = "sjf_loop" /\ pc' = "sjf_loop" /\ order' # order) =>
        LET c == order'[Len(order')]
            clock == time' - burst_times[c]
        IN  /\ order' = Append(order, c)
            /\ c \in remaining
            /\ clock >= time
            /\ arrival_times[c] <= clock
            /\ \A j \in remaining :
                arrival_times[j] <= clock =>
                    \/ burst_times[c] < burst_times[j]
                    \/ (burst_times[c] = burst_times[j] /\ c <= j)]_vars

\* SJF has just selected a job while another ready job had the same
\* service time (and so a higher index).
C20_Witness ==
    /\ pc = "sjf_loop"
    /\ order # <<>>
    /\ LET c == order[Len(order)]
           clock == time - burst_times[c]
       IN  \E j \in remaining :
            /\ arrival_times[j] <= clock
            /\ burst_times[j] = burst_times[c]
            /\ j > c

\* C18: for 0 <= changed_services <= num_services, cached_build returns
\* whenever the total below is not 0, and then total_time is
\* changed_services * avg_time + (num_services - changed_services) * h with
\* h = floor(avg_time / 2); with changed_services = num_services this is
\* the total of sequential_build, num_services * avg_time.
C18_CachedTotal ==
    build.pc \in {"done", "error"} /\ build.strategy = "cached" =>
        \E h \in 0 .. build.avg_time :
            /\ 2 * h <= build.avg_time
            /\ build.avg_time < 2 * h + 2
            /\ LET total == build.changed_services * build.avg_time
                              + (build.num_services - build.changed_services) * h
               IN  /\ build.pc = "error" <=> total = 0
                   /\ build.pc = "done" =>
                        /\ build.total_time = total
                        /\ build.changed_services = build.num_services =>
                            /\ total = build.num_services * build.avg_time
                            /\ total = SequentialTotal(build.num_services,
                                                       build.avg_time)

\* cached_build has returned for an odd avg_time with some services changed
\* and an even number, at least two, served from the cache.
C18_Witness ==
    /\ build.pc = "done"
    /\ build.strategy = "cached"
    /\ build.avg_time % 2 = 1
    /\ build.changed_services > 0
    /\ build.num_services - build.changed_services = 2

\* C16: with num_services >= 1 and requests >= 0, round_robin_load,
\* random_load (whatever indices it draws) and least_connections_load
\* return, and the distribution returned has one entry per service and sums
\* to requests plus the sum of the initial loads, which are zero for round
\* robin and random; after i requests the list sums to i plus that sum.
InitialLoad ==
    IF lb.algorithm = "Least Connections" THEN PySum(lb.service_loads) ELSE 0
C16_RequestsConserved ==
    lb.pc # "off" /\ lb.num_services >= 1 =>
        /\ lb.pc # "error"
        /\ lb.pc = "loop" =>
            /\ PyLen(lb.distribution) = lb.num_services
            /\ PySum(lb.distribution) = lb.i + InitialLoad
        /\ lb.pc = "done" =>
            /\ DOMAIN lb.metrics.distribution = Range(lb.num_services)
            /\ PySum(lb.metrics.distribution) = lb.requests + InitialLoad

\* A balancer has returned after several requests, two of which went to the
\* same service; least connections started from unequal, non-zero loads.
C16_Witness ==
    /\ lb.pc = "done"
    /\ lb.requests >= 3
    /\ lb.num_services >= 2
    /\ \E idx \in DOMAIN lb.metrics.distribution :
            lb.metrics.distribution[idx] >= 2
    /\ lb.algorithm = "Least Connections" =>
            /\ PySum(lb.service_loads) > 0
            /\ \E a, b \in DOMAIN lb.service_loads :
                    lb.service_loads[a] # lb.service_loads[b]

\* C17: genetic_algorithm_load returns, whatever it draws, a distribution
\* with one entry per service that sums to requests (new_population, which
\* holds the children after repair and mutation, becomes the population
\* whose first individual is returned).
C17_GaReturned ==
    ga.pc = "done" =>
        /\ PyLen(ga.metrics.distribution) = ga.num_services
        /\ PySum(ga.metrics.distribution) = ga.requests

\* C21: at every tick of srtf_scheduling at which some arrived job is
\* unfinished, the job run for that tick (appended to order, one unit taken
\* off its remaining time, the clock advanced by 1) has the least remaining
\* time of the arrived unfinished jobs and the least index of those that
\* tie; which job ran the tick before plays no part.
C21_SrtfPicksLeastRemaining ==
    [][(pc = "srtf_loop" /\ pc' = "srtf_loop") =>
        LET ready == {j \in Jobs : arrival_times[j] <= time /\ remaining_times[j] > 0}
        IN  ready # {} =>
                \E c \in ready :
                    /\ order' = Append(order, c)
                    /\ remaining_times' = [remaining_times EXCEPT ![c] = @ - 1]
                    /\ time' = time + 1
                    /\ \A j \in ready :
                        \/ remaining_times[c] < remaining_times[j]
                        \/ (remaining_times[c] = remaining_times[j] /\ c <= j)]_vars

\* The job of the last tick took the processor from the job of the tick
\* before, which is unfinished, has a higher index and had the same
\* remaining time.
C21_Witness ==
    /\ pc = "srtf_loop"
    /\ Len(order) >= 2
    /\ LET c == order[Len(order)]
           r == order[Len(order) - 1]
       IN  /\ c < r
           /\ remaining_times[r] > 0
           /\ remaining_times[c] + 1 = remaining_times[r]

\* C22: in srtf_scheduling the start and response time of a job are written
\* at the tick the job is selected for the first time (start = the clock of
\* that tick, response = start - arrival) and by no other step: they hold
\* -1 and 0 until then and keep their values through every later tick,
\* preemption and resumption, and through the return.
C22_SrtfStartWrittenOnce ==
    [][pc = "srtf_loop" =>
        \A j \in Jobs :
            LET never == \A p \in DOMAIN order : order[p] # j
                first == never /\ order' = Append(order, j)
            IN  /\ never => (start_times[j] = -1 /\ response_times[j] = 0)
                /\ first =>
                    /\ start_times'[j] = time
                    /\ response_times'[j] = time - arrival_times[j]
                /\ ~first =>
                    /\ start_times'[j] = start_times[j]
                    /\ response_times'[j] = response_times[j]]_vars

\* SRTF has returned a result in which a job that arrived late and waited
\* for its first tick was later preempted and resumed: it completed more
\* than its service time after its start.
C22_Witness ==
    /\ pc = "done"
    /\ policy = "SRTF"
    /\ \E j \in Jobs :
        /\ response_times[j] > 0
        /\ start_times[j] = arrival_times[j] + response_times[j]
        /\ completion_times[j] - start_times[j] > burst_times[j]

\* C23: in srtf_scheduling the completion time of a job is recorded at the
\* tick that takes its remaining time to 0, as the clock after that tick;
\* until then it holds 0.  A job whose remaining time is 0 has run all its
\* service, is not among the jobs the next tick selects from, is not
\* selected, and keeps its remaining time and its completion time through
\* every later step.
C23_SrtfCompletionFinal ==
    [][pc = "srtf_loop" =>
        \A j \in Jobs :
            /\ remaining_times[j] > 0 =>
                /\ completion_times[j] = 0
                /\ remaining_times'[j] = 0 =>
                    /\ order' = Append(order, j)
                    /\ time' = time + 1
                    /\ completion_times'[j] = time'
                /\ remaining_times'[j] > 0 => completion_times'[j] = 0
            /\ remaining_times[j] = 0 =>
                /\ Runs(j) = burst_times[j]
                /\ j \notin {i \in Jobs : arrival_times[i] <= time
                                          /\ remaining_times[i] > 0}
                /\ order' # Append(order, j)
                /\ remaining_times'[j] = 0
                /\ completion_times'[j] = completion_times[j]]_vars

\* A job finished at an earlier tick and another job, which arrived before
\* that tick, has run since: the run went on past a recorded completion.
C23_Witness ==
    /\ pc = "srtf_loop"
    /\ order # <<>>
    /\ \E j \in Jobs :
        /\ remaining_times[j] = 0
        /\ completion_times[j] < time
        /\ order[Len(order)] # j
        /\ arrival_times[order[Len(order)]] < completion_times[j]

\* C24: a tick of srtf_scheduling is idle (it runs no job) exactly when no
\* arrived job is unfinished at the clock of the tick; an idle tick advances
\* the clock by 1 and leaves the remaining, start, response and completion
\* times, the completed count and the order as they were.
C24_SrtfIdleTick ==
    [][(pc = "srtf_loop" /\ pc' = "srtf_loop") =>
        LET ready == {j \in Jobs : arrival_times[j] <= time /\ remaining_times[j] > 0}
            idle == order' = order
        IN  /\ idle <=> ready = {}
            /\ idle =>
                /\ time' = time + 1
                /\ remaining_times' = remaining_times
                /\ start_times' = start_times
                /\ response_times' = response_times
                /\ completion_times' = completion_times
                /\ completed' = completed]_vars

\* The processor has idled between two jobs: the last job run completed
\* before the present clock and a job is still to arrive.
C24_Witness ==
    /\ pc = "srtf_loop"
    /\ completed < n
    /\ order # <<>>
    /\ time > Len(order)
    /\ remaining_times[order[Len(order)]] = 0
    /\ completion_times[order[Len(order)]] < time

\* C25: at every decision of hrrn_scheduling (a step taken while some
\* unfinished job has arrived) the job chosen has the greatest response
\* ratio (clock - arrival + service) / service of the arrived unfinished
\* jobs, and the least index of those whose ratio is exactly equal; it starts
\* at the clock of the decision and runs to completion, the clock advancing
\* by its whole service time.  Ratios are compared by cross-multiplication,
\* the service times being positive.
C25_HrrnPicksHighestRatio ==
    [][(pc = "hrrn_loop" /\ pc' = "hrrn_loop") =>
        LET ready == {j \in Jobs : ~done[j] /\ arrival_times[j] <= time}
        IN  ready # {} =>
                \E c \in ready :
                    /\ order' = Append(order, c)
                    /\ \A j \in ready :
                        LET rc == (time - arrival_times[c] + burst_times[c]) * burst_times[j]
                            rj == (time - arrival_times[j] + burst_times[j]) * burst_times[c]
                        IN  rc > rj \/ (rc = rj /\ c <= j)
                    /\ start_times'[c] = time
                    /\ time' = time + burst_times[c]
                    /\ completion_times'[c] = time'
                    /\ done' = [done EXCEPT ![c] = TRUE]
                    /\ completed' = completed + 1]_vars

\* HRRN has just decided between two ready jobs of different service times
\* whose ratios were exactly equal, and took the one of lower index, a job
\* of more than one time unit.
C25_Witness ==
    /\ pc = "hrrn_loop"
    /\ order # <<>>
    /\ LET c == order[Len(order)]
           clock == time - burst_times[c]
       IN  /\ burst_times[c] > 1
           /\ \E j \in Jobs :
                /\ j > c
                /\ ~done[j]
                /\ arrival_times[j] <= clock
                /\ burst_times[j] # burst_times[c]
                /\ (clock - arrival_times[c] + burst_times[c]) * burst_times[j]
                       = (clock - arrival_times[j] + burst_times[j]) * burst_times[c]

\* The least arrival time among the jobs of S, and the jobs of S arriving then.
EarliestArrival(S) ==
    CHOOSE a \in {arrival_times[j] : j \in S} : \A j \in S : a <= arrival_times[j]
ArrivingFirst(S) == {j \in S : arrival_times[j] = EarliestArrival(S)}
\* The clock at which the processor became free: 0, or the completion time
\* HRRN recorded for the last job it ran.
HrrnFreeAt == IF order = <<>> THEN 0 ELSE completion_times[order[Len(order)]]

\* C26: when no unscheduled job has arrived at the clock at which the
\* processor is free, the next job selected starts exactly at the least
\* arrival time of the unscheduled jobs, and it is selected from all the jobs
\* arriving then.  sjf_scheduling sets its clock to that time and takes the
\* shortest of them, lowest index on ties; hrrn_scheduling reaches that time
\* by idle ticks of 1, none of which passes it, and takes the job of lowest
\* index (every job arriving at that instant has ratio 1).
C26_StartsAtNextArrival ==
    [][/\ (pc = "sjf_loop" /\ pc' = "sjf_loop"
            /\ {j \in remaining : arrival_times[j] <= time} = {}) =>
            \E c \in ArrivingFirst(remaining) :
                /\ order' = Append(order, c)
                /\ time' = EarliestArrival(remaining) + burst_times[c]
                /\ \A j \in ArrivingFirst(remaining) :
                    \/ burst_times[c] < burst_times[j]
                    \/ (burst_times[c] = burst_times[j] /\ c <= j)
       /\ (pc = "hrrn_loop" /\ pc' = "hrrn_loop") =>
            LET waiting == {j \in Jobs : ~done[j]}
            IN  /\ order' = order =>
                    /\ time < EarliestArrival(waiting)
                    /\ time' <= EarliestArrival(waiting)
                /\ (order' # order /\ HrrnFreeAt < EarliestArrival(waiting)) =>
                    \E c \in ArrivingFirst(waiting) :
                        /\ order' = Append(order, c)
                        /\ time = EarliestArrival(waiting)
                        /\ start_times'[c] = EarliestArrival(waiting)
                        /\ \A j \in ArrivingFirst(waiting) : c <= j]_vars

\* HRRN has just started a job on its arrival, after the processor had sat
\* idle since the job before it completed; another job arrived at the same
\* instant and is still to run.
C26_Witness ==
    /\ pc = "hrrn_loop"
    /\ Len(order) >= 2
    /\ LET c == order[Len(order)]
           p == order[Len(order) - 1]
       IN  /\ completion_times[p] < start_times[c]
           /\ start_times[c] = arrival_times[c]
           /\ \E j \in Jobs :
                ~done[j] /\ arrival_times[j] = arrival_times[c]

\* The completion time of the job before slot p of order, 0 for the first.
EndBefore(p) == IF p = 1 THEN 0 ELSE completion_times[order[p - 1]]
\* The policies that hand their order to compute_detailed_metrics.
UsesMetrics == {"FCFS", "SJF"}

\* C27: compute_detailed_metrics, given an order that is a permutation of
\* the job indices, walks it once with a running clock: the job in slot k
\* starts at the greater of its arrival time and the completion time of the
\* job in slot k-1 (0 for the first slot) and completes at its start plus
\* its service time; the clock is then that completion time.
C27_MetricsWalk ==
    (policy \in UsesMetrics /\ pc \in {"metrics_loop", "done"}) =>
        /\ Len(order) = PyLen(burst_times)
        /\ \A j \in Jobs : Runs(j) = 1
        /\ pos \in 1 .. Len(order) + 1
        /\ pc = "done" => pos = Len(order) + 1
        /\ \A p \in 1 .. pos - 1 :
            LET idx == order[p]
            IN  /\ start_times[idx] =
                        IF EndBefore(p) > arrival_times[idx]
                        THEN EndBefore(p) ELSE arrival_times[idx]
                /\ completion_times[idx] = start_times[idx] + burst_times[idx]
        /\ pos > 1 => time = completion_times[order[pos - 1]]

\* The walk has ended on an order in which one job started on its arrival,
\* the processor having been free before it, and another started later
\* than it arrived, when the job before it completed.
C27_Witness ==
    /\ policy \in UsesMetrics
    /\ pc = "done"
    /\ \E p, q \in DOMAIN order :
        /\ EndBefore(p) < arrival_times[order[p]]
        /\ start_times[order[p]] = arrival_times[order[p]]
        /\ EndBefore(q) > arrival_times[order[q]]
        /\ start_times[order[q]] = EndBefore(q)

\* C28: the order built by fcfs_scheduling, sjf_scheduling and
\* hrrn_scheduling on a valid job set is a permutation of the job indices
\* 0..n-1: at no point does it hold a job twice or anything but a job
\* index, and when it is complete (handed to compute_detailed_metrics, or
\* returned) it holds every job.
C28_OrderIsPermutation ==
    policy \in NonPreemptive =>
        /\ \A p \in DOMAIN order : order[p] \in Range(PyLen(burst_times))
        /\ \A p, q \in DOMAIN order : p # q => order[p] # order[q]
        /\ pc \in {"metrics_loop", "done"} =>
            /\ Len(order) = PyLen(burst_times)
            /\ {order[p] : p \in DOMAIN order} = Range(PyLen(burst_times))

\* HRRN has returned an order of three jobs that is not the index order.
C28_Witness ==
    /\ policy = "HRRN"
    /\ pc = "done"
    /\ Len(order) = 3
    /\ \E p \in 1 .. 2 : order[p] > order[p + 1]

(***************************************************************************)
(* An event-driven SRTF, as the specification describes the substitution:  *)
(* the choice (least remaining time, then lowest index) is made only when  *)
(* a job arrives or completes; the job chosen runs without interruption to *)
(* the next such event.  The repository holds no such implementation.      *)
(***************************************************************************)
\* The state of the event-driven run before any job has run.
EventStart(at, bt) ==
    [clock |-> 0, rem |-> bt,
     start |-> [j \in DOMAIN bt |-> -1],
     completion |-> [j \in DOMAIN bt |-> 0]]
\* The jobs that have arrived and are unfinished, and the one to run.
EventReady(at, s) == {j \in DOMAIN s.rem : at[j] <= s.clock /\ s.rem[j] > 0}
EventChoice(at, s) ==
    CHOOSE c \in EventReady(at, s) :
        \A j \in EventReady(at, s) :
            s.rem[c] < s.rem[j] \/ (s.rem[c] = s.rem[j] /\ c <= j)
\* The arrival times still to come of unfinished jobs, and the first of them.
EventArrivals(at, s) == {at[j] : j \in {i \in DOMAIN s.rem : at[i] > s.clock /\ s.rem[i] > 0}}
EventNextArrival(at, s) ==
    CHOOSE a \in EventArrivals(at, s) : \A b \in EventArrivals(at, s) : a <= b
\* From one event to the next: the clock jumps to the next arrival when no
\* job is ready; otherwise the job chosen runs until it completes or until
\* the next arrival, whichever comes first.
EventStep(at, s) ==
    IF EventReady(at, s) = {}
    THEN [s EXCEPT !.clock = EventNextArrival(at, s)]
    ELSE LET c == EventChoice(at, s)
             run == IF EventArrivals(at, s) # {}
                       /\ EventNextArrival(at, s) - s.clock < s.rem[c]
                    THEN EventNextArrival(at, s) - s.clock
                    ELSE s.rem[c]
         IN  [clock |-> s.clock + run,
              rem |-> [s.rem EXCEPT ![c] = @ - run],
              start |-> IF s.start[c] = -1
                        THEN [s.start EXCEPT ![c] = s.clock] ELSE s.start,
              completion |-> IF s.rem[c] = run
                             THEN [s.completion EXCEPT ![c] = s.clock + run]
                             ELSE s.completion]
RECURSIVE EventRun(_, _)
EventRun(at, s) ==
    IF \A j \in DOMAIN s.rem : s.rem[j] = 0 THEN s
    ELSE EventRun(at, EventStep(at, s))
\* The per-job result of the event-driven SRTF on (at, bt).
EventSrtf(at, bt) ==
    LET s == EventRun(at, EventStart(at, bt))
    IN  [start_times |-> s.start,
         completion_times |-> s.completion,
         turnaround_times |-> [j \in DOMAIN bt |-> s.completion[j] - at[j]],
         waiting_times |-> [j \in DOMAIN bt |-> s.completion[j] - at[j] - bt[j]],
         response_times |-> [j \in DOMAIN bt |-> s.start[j] - at[j]]]

\* C29: on every valid job set the tick-based srtf_scheduling returns, job
\* for job, the start, completion, waiting, turnaround and response times
\* of the event-driven SRTF that chooses (least remaining time, then lowest
\* index) only at arrivals and completions.
C29_EventDrivenSame ==
    (pc = "done" /\ policy = "SRTF") =>
        LET e == EventSrtf(arrival_times, burst_times)
        IN  /\ start_times = e.start_times
            /\ completion_times = e.completion_times
            /\ waiting_times = e.waiting_times
            /\ turnaround_times = e.turnaround_times
            /\ response_times = e.response_times

\* SRTF has returned on a job set on which a running job was preempted by
\* an arrival and the processor also sat idle waiting for an arrival.
C29_Witness ==
    /\ pc = "done"
    /\ policy = "SRTF"
    /\ \E j \in Jobs : completion_times[j] - start_times[j] > burst_times[j]
    /\ \E j \in Jobs : completion_times[j] > PySum(burst_times)

C33_NonOverlap ==
    /\ (pc = "done" /\ policy \in NonPreemptive) =>
            \A j, k \in Jobs :
                j # k => \/ completion_times[j] <= start_times[k]
                         \/ completion_times[k] <= start_times[j]
    /\ (policy = "SRTF" /\ pc \in {"srtf_loop", "done"}) =>
            /\ Len(order) <= time
            /\ pc = "done" =>
                    \A j \in Jobs :
                        Runs(j) <= completion_times[j] - start_times[j]

\* An SJF run has returned in which a job that had arrived earlier had to
\* wait and started at the very instant another job completed.
C33_Witness ==
    /\ pc = "done"
    /\ policy = "SJF"
    /\ \E j, k \in Jobs :
        /\ j # k
        /\ arrival_times[k] < start_times[k]
        /\ start_times[k] = completion_times[j]
        /\ burst_times[j] > 1


\* The clock compute_detailed_metrics ends with after walking `ord` from
\* position p with the clock at t: the completion time of the last job.
RECURSIVE WalkEnd(_, _, _, _, _)
WalkEnd(at, bt, ord, p, t) ==
    IF p > Len(ord) THEN t
    ELSE WalkEnd(at, bt, ord, p + 1,
                 Completion(MetricsStart(t, at[ord[p]]), bt[ord[p]]))

\* The position of job i in sorted(range(n), key=lambda i: at[i]): after the
\* jobs of smaller key and the jobs of equal key and lower index.
SortedSlot(at, i) ==
    1 + Cardinality({j \in DOMAIN at :
                        at[j] < at[i] \/ (at[j] = at[i] /\ j < i)})
\* max(fcfs_scheduling(at, bt)["completion_times"])
FcfsMakespan(at, bt) ==
    WalkEnd(at, bt,
            [p \in 1 .. PyLen(at) |-> CHOOSE i \in DOMAIN at : SortedSlot(at, i) = p],
            1, 0)

\* The jobs whose interval [start, completion) holds the instant t.
RunningAt(t) == {j \in Jobs : start_times[j] <= t /\ t < completion_times[j]}

\* C34: no policy leaves the processor idle while an arrived job is
\* unfinished: whichever policy returns on a valid non-empty job set, its
\* largest completion time is the one FCFS gives for that job set, and under
\* FCFS, SJF and HRRN some job is running at every instant between a job's
\* arrival and its start.
C34_WorkConserving ==
    (pc = "done" /\ Jobs # {}) =>
        /\ LET makespan == FcfsMakespan(arrival_times, burst_times)
           IN  /\ \A j \in Jobs : completion_times[j] <= makespan
               /\ \E j \in Jobs : completion_times[j] = makespan
        /\ policy \in NonPreemptive =>
                \A k \in Jobs :
                    \A t \in arrival_times[k] .. start_times[k] - 1 :
                        RunningAt(t) # {}

\* An SRTF run has returned that preempted a job, after the processor had
\* idled until the first arrival, and whose executed order is not the FCFS
\* order.
C34_Witness ==
    /\ pc = "done"
    /\ policy = "SRTF"
    /\ \A j \in Jobs : arrival_times[j] > 0
    /\ \E j \in Jobs : waiting_times[j] > response_times[j]
    /\ \E j \in Jobs :
            completion_times[j] = FcfsMakespan(arrival_times, burst_times)


\* The state part of the SRTF loop invariant.
SrtfLoopState ==
    (policy = "SRTF" /\ pc \in {"srtf_loop", "done"}) =>
        /\ \A j \in Jobs :
            /\ 0 <= remaining_times[j]
            /\ remaining_times[j] <= burst_times[j]
            /\ Runs(j) = burst_times[j] - remaining_times[j]
            /\ pc = "done" => Runs(j) = burst_times[j]
        /\ completed = Cardinality({j \in Jobs : remaining_times[j] = 0})
        /\ Len(order) <= time

\* C35: at every reachable state of srtf_scheduling on a valid job set,
\* 0 <= remaining_times[j] <= burst_times[j], job j occurs in order
\* burst_times[j] - remaining_times[j] times, completed is the number of
\* jobs with remaining time 0, and the clock is len(order) plus the number
\* of idle ticks (every iteration adds one to the clock and either one slot
\* to order or, leaving order alone, one idle tick); when the function
\* returns each job occurs in order exactly burst_times[j] times.
C35_SrtfLoopInvariant ==
    /\ []SrtfLoopState
    /\ [][(pc = "srtf_loop" /\ pc' = "srtf_loop") =>
            /\ time' = time + 1
            /\ \/ order' = order
               \/ \E j \in Jobs : order' = Append(order, j)]_vars

\* The SRTF loop is under way after an idle tick, with one job finished and
\* another one part-way through its service.
C35_Witness ==
    /\ policy = "SRTF"
    /\ pc = "srtf_loop"
    /\ time > Len(order)
    /\ completed = 1
    /\ \E j \in Jobs :
        /\ 0 < remaining_times[j]
        /\ remaining_times[j] < burst_times[j]


\* Job j is never preempted: its slots of `order` are consecutive.
Unbroken(j) ==
    \A p, q \in DOMAIN order :
        (p < q /\ order[p] = j /\ order[q] = j) =>
            \A r \in p .. q : order[r] = j

\* C36: when SRTF returns on a valid job set, every job has
\* waiting >= response and completion - start >= burst, and each of the two
\* holds with equality exactly when no other job ran between the job's
\* first and last tick.
C36_SrtfPreemptionCost ==
    (pc = "done" /\ policy = "SRTF") =>
        \A j \in Jobs :
            /\ waiting_times[j] >= response_times[j]
            /\ completion_times[j] - start_times[j] >= burst_times[j]
            /\ (waiting_times[j] = response_times[j]) <=> Unbroken(j)
            /\ (completion_times[j] - start_times[j] = burst_times[j])
                    <=> Unbroken(j)

\* An SRTF run has returned in which one job of several time units was
\* preempted and another ran through without a break.
C36_Witness ==
    /\ pc = "done"
    /\ policy = "SRTF"
    /\ \E j, k \in Jobs :
        /\ ~Unbroken(j)
        /\ waiting_times[j] > response_times[j]
        /\ burst_times[k] > 1
        /\ Unbroken(k)
        /\ waiting_times[k] = response_times[k]


\* The calls the balance bound is about: round_robin_load, and
\* least_connections_load given the same initial load on every instance.
StartsLevel ==
    \/ lb.algorithm = "Round Robin"
    \/ /\ lb.algorithm = "Least Connections"
       /\ \A a, b \in DOMAIN lb.service_loads :
                lb.service_loads[a] = lb.service_loads[b]

\* The loads differ by at most one, in the loop and in the returned metrics.
Level ==
    (lb.pc \in {"loop", "done"} /\ PyLen(lb.distribution) > 0 /\ StartsLevel) =>
        /\ PyMax(lb.distribution) - PyMin(lb.distribution) <= 1
        /\ lb.pc = "done" => lb.metrics.load_imbalance <= 1

\* C37: each iteration of least_connections_load adds the request to an
\* instance holding the least load, the lowest-indexed of them, and
\* iteration i of round_robin_load adds it to instance i mod num_services;
\* so after any number of requests the loads of round_robin_load, and of
\* least_connections_load started from equal loads, differ by at most 1,
\* and so does the load_imbalance returned.
C37_Balance ==
    /\ []Level
    /\ [][(lb.pc = "loop" /\ lb'.pc = "loop") =>
            /\ lb.algorithm = "Round Robin" =>
                    lb'.distribution =
                        [lb.distribution EXCEPT ![lb.i % lb.num_services] = @ + 1]
            /\ lb.algorithm = "Least Connections" =>
                    \E idx \in DOMAIN lb.distribution :
                        /\ \A j \in DOMAIN lb.distribution :
                                \/ lb.distribution[idx] < lb.distribution[j]
                                \/ /\ lb.distribution[idx] = lb.distribution[j]
                                   /\ idx <= j
                        /\ lb'.distribution =
                                [lb.distribution EXCEPT ![idx] = @ + 1]]_vars

\* least_connections_load has returned after sharing requests among several
\* instances that each started with the same positive load, and one
\* instance ended one request above another.
C37_Witness ==
    /\ lb.pc = "done"
    /\ lb.algorithm = "Least Connections"
    /\ lb.num_services >= 2
    /\ lb.requests > lb.num_services
    /\ \A a \in DOMAIN lb.service_loads : lb.service_loads[a] > 0
    /\ StartsLevel
    /\ lb.metrics.load_imbalance = 1



\* C31: over any sequence of calls of save_results_csv on one file, the
\* file has one header row, its first, and every data row has exactly as
\* many cells as the header has columns.
C31_LogConsistent ==
    log_file.exists =>
        /\ Len(log_file.rows) >= 1
        /\ log_file.rows[1][1] = "phase"
        /\ \A p \in 2 .. Len(log_file.rows) :
            /\ log_file.rows[p] # log_file.rows[1]
            /\ Len(log_file.rows[p]) = Len(log_file.rows[1])


\* The column of the file's header named k, 0 when there is none.
Column(f, k) ==
    IF \E i \in DOMAIN f.rows[1] : f.rows[1][i] = k
    THEN CHOOSE i \in DOMAIN f.rows[1] : f.rows[1][i] = k
    ELSE 0

\* C32: after any call of save_results_csv, on a file that existed or on one
\* the call creates, every key of result is a column of the file's header
\* and the last row holds the text of its value in that column.
C32_ExtraKeysRecorded ==
    [][\A result \in Results :
            log_file' = save_results_csv(log_file, result, "LoadBalancing") =>
                \A i \in DOMAIN result :
                    LET c == Column(log_file', result[i][1])
                        last == log_file'.rows[Len(log_file'.rows)]
                    IN  /\ c # 0
                        /\ c <= Len(last)
                        /\ last[c] = CsvText(result[i][2])]_vars


\* The log file is the header row followed by rows of one cell per column.
LogShape ==
    log_file.exists =>
        /\ Len(log_file.rows) >= 2
        /\ log_file.rows[1] = CSV_HEADERS
        /\ \A p \in 2 .. Len(log_file.rows) :
                Len(log_file.rows[p]) = Len(CSV_HEADERS)

\* C39: starting from an absent log file, every call of save_results keeps
\* the rows the file had and adds one data row after them, preceded by the
\* header row exactly when the file did not exist; so after k calls the file
\* is the header followed by the k data rows in call order.  The row has one
\* cell per column of CSV_HEADERS: the text of data[key], or the empty
\* string when data has no such key; keys outside CSV_HEADERS leave no trace.
C39_AppendOnly ==
    /\ []LogShape
    /\ [][/\ Len(log_file'.rows) =
                Len(log_file.rows) + (IF log_file.exists THEN 1 ELSE 2)
          /\ SubSeq(log_file'.rows, 1, Len(log_file.rows)) = log_file.rows
          /\ \A data \in Data :
                log_file' = save_results(log_file, data) =>
                    LET row == log_file'.rows[Len(log_file'.rows)]
                    IN  \A j \in DOMAIN CSV_HEADERS :
                            row[j] = IF CSV_HEADERS[j] \in DOMAIN data
                                     THEN WriterText(data[CSV_HEADERS[j]])
                                     ELSE ""]_vars

\* The file holds the header and two rows from two calls: the first row has
\* a phase and a total time, the second neither.
C39_Witness ==
    /\ Len(log_file.rows) = 3
    /\ log_file.rows[2][1] = "Build"
    /\ log_file.rows[2][4] = "2"
    /\ \A j \in DOMAIN CSV_HEADERS : log_file.rows[3][j] = ""


\* The choice read by the phase is a number of its menu.
ValidChoice ==
    \/ phase.name = "Build" /\ phase.choice \in 1 .. 4
    \/ phase.name = "LoadBalancing" /\ phase.choice \in 1 .. 6
    \/ phase.name = "Scheduling" /\ phase.choice \in DOMAIN SchedulingMenu

\* C38: a phase whose choice is outside its menu ends having run no strategy
\* and leaves the log as it was (here: absent); a phase whose choice is in
\* the menu ends with exactly one row appended (here: the header and one
\* row).
C38_ChoiceDecidesRow ==
    phase.pc \in {"returned", "raised"} =>
        IF ValidChoice
        THEN log_file.exists /\ Len(log_file.rows) = 2
        ELSE /\ log_file = NoFile
             /\ build = Off /\ lb = Off /\ ga = Off /\ pc = "off"

====
